---------------------------- MODULE Spec2Model ----------------------------
(***************************************************************************)
(* A model of the dependency-graph core of codecompass: language           *)
(* detection (lib/parsers/language-detector.ts), the ECMAScript and Python *)
(* import parsers (lib/parsers/javascript-parser.ts, python-parser.ts),    *)
(* the parser registry and the graph build of the GET handler of           *)
(* app/api/dependencies/route.ts.                                          *)
(*                                                                         *)
(* Strings (paths, import specifiers, module names) are sequences of       *)
(* one-character strings, so startsWith, includes, split, join and the     *)
(* suffix regexes are computed as the code computes them.  A file's text   *)
(* is a sequence of statements; each statement has a shape (which of the   *)
(* parsers' regular expressions can match it) and a specifier string.      *)
(***************************************************************************)
EXTENDS Integers, Sequences, FiniteSets, TLC

(***************************************************************************)
(* State                                                                   *)
(***************************************************************************)

VARIABLES
  pc,                 \* where the request (or the direct call) stands
  url,                \* the url parameter: "missing", "invalid" or "ok"
  manualLanguage,     \* the lang parameter: NULL when absent
  repo,               \* the repository at the provider: [ok, truncated, items of [path, type, content, size]]
  langResp,           \* the answer of the provider's languages endpoint
  detTree,            \* the tree argument of a direct call of detectLanguage: [present, items]
  parsers,            \* ParserRegistry.parsers
  tree, isTruncated, warnings,
  languageDetection,
  methodsRun,         \* the detection methods that were run, in order
  parser,             \* the parser object in use: "js", "py" or "none" before the choice
  codeFiles,
  fileContents,       \* per code file [path, content, settled]
  skippedLargeFiles, failedFetches,
  nodes, edges,
  idx,                \* the position of the edge loop in fileContents
  fetchLog,           \* the requests sent to the provider, in order
  response,           \* the response of GET: [status, error, nodes, edges, metadata, warnings]
  calls               \* direct calls of the parsers' functions: [op, parser, arg, path, result]

vars == << pc, url, manualLanguage, repo, langResp, detTree, parsers, tree, isTruncated, warnings,
           languageDetection, methodsRun, parser, codeFiles, fileContents, skippedLargeFiles,
           failedFetches, nodes, edges, idx, fetchLog, response, calls >>

envVars == << url, manualLanguage, repo, langResp, detTree, parsers >>
treeVars == << tree, isTruncated >>
detectVars == << languageDetection, methodsRun >>
fetchVars == << parser, codeFiles, fileContents, skippedLargeFiles, failedFetches >>
graphVars == << nodes, edges, idx >>

(***************************************************************************)
(* String primitives (JavaScript String / Array methods)                   *)
(***************************************************************************)

\* The null / undefined result; no string has an element longer than one character.
NULL == <<"NULL">>

StartsWith(s, p) == Len(s) >= Len(p) /\ SubSeq(s, 1, Len(p)) = p

EndsWith(s, p) == Len(s) >= Len(p) /\ SubSeq(s, Len(s) - Len(p) + 1, Len(s)) = p

Includes(s, p) == \E i \in 1..(Len(s) - Len(p) + 1) : SubSeq(s, i, i + Len(p) - 1) = p

\* s.substring(n) with a 0-based n
Substring(s, n) == SubSeq(s, n + 1, Len(s))

\* s without its last n characters
DropLast(s, n) == SubSeq(s, 1, Len(s) - n)

\* Array.prototype.includes on an array of strings
ArrIncludes(arr, x) == \E i \in 1..Len(arr) : arr[i] = x

RECURSIVE Split(_, _)
\* s.split(c) for a one-character separator c: "".split("/") is [""]
Split(s, c) ==
  IF \A i \in 1..Len(s) : s[i] # c
  THEN <<s>>
  ELSE LET i == CHOOSE k \in 1..Len(s) : s[k] = c /\ \A j \in 1..(k - 1) : s[j] # c
       IN  <<SubSeq(s, 1, i - 1)>> \o Split(SubSeq(s, i + 1, Len(s)), c)

RECURSIVE Join(_, _)
\* parts.join(c): [].join("/") is ""
Join(parts, c) ==
  IF Len(parts) = 0 THEN <<>>
  ELSE IF Len(parts) = 1 THEN parts[1]
  ELSE parts[1] \o <<c>> \o Join(Tail(parts), c)

\* s.replace(/\./g, "/")
DotsToSlashes(s) == [i \in 1..Len(s) |-> IF s[i] = "." THEN "/" ELSE s[i]]

\* arr.slice(0, -1)
SliceInit(arr) == IF Len(arr) = 0 THEN <<>> ELSE SubSeq(arr, 1, Len(arr) - 1)

\* arr.slice(0, k) for any integer k (negative k counts from the end)
SliceTo(arr, k) ==
  LET e == IF k < 0 THEN (IF Len(arr) + k < 0 THEN 0 ELSE Len(arr) + k)
           ELSE (IF k > Len(arr) THEN Len(arr) ELSE k)
  IN  SubSeq(arr, 1, e)

\* arr.filter(Boolean) on an array of strings: the empty strings go
FilterNonEmpty(arr) == SelectSeq(arr, LAMBDA x : Len(x) > 0)

LowerOf == [c \in {"A","B","C","D","E","F","G","H","I","J","K","L","M","N","O","P","Q","R","S","T","U","V","W","X","Y","Z"} |->
  CASE c = "A" -> "a" [] c = "B" -> "b" [] c = "C" -> "c" [] c = "D" -> "d" [] c = "E" -> "e"
    [] c = "F" -> "f" [] c = "G" -> "g" [] c = "H" -> "h" [] c = "I" -> "i" [] c = "J" -> "j"
    [] c = "K" -> "k" [] c = "L" -> "l" [] c = "M" -> "m" [] c = "N" -> "n" [] c = "O" -> "o"
    [] c = "P" -> "p" [] c = "Q" -> "q" [] c = "R" -> "r" [] c = "S" -> "s" [] c = "T" -> "t"
    [] c = "U" -> "u" [] c = "V" -> "v" [] c = "W" -> "w" [] c = "X" -> "x" [] c = "Y" -> "y"
    [] c = "Z" -> "z"]

\* s.toLowerCase()
ToLowerCase(s) == [i \in 1..Len(s) |-> IF s[i] \in DOMAIN LowerOf THEN LowerOf[s[i]] ELSE s[i]]

\* the characters of the regex class \w
WordChars ==
  {"a","b","c","d","e","f","g","h","i","j","k","l","m","n","o","p","q","r","s","t","u","v","w","x","y","z",
   "0","1","2","3","4","5","6","7","8","9","_"} \cup DOMAIN LowerOf

(***************************************************************************)
(* JavaScriptParser (lib/parsers/javascript-parser.ts)                     *)
(***************************************************************************)

\* the extensions of the suffix regex /\.(tsx?|jsx?|mjs|cjs)$/ and of the variations list, in the list's order
JsExts == << <<"t","s">>, <<"t","s","x">>, <<"j","s">>, <<"j","s","x">>, <<"m","j","s">>, <<"c","j","s">> >>

JsIsInternalImport(importPath, currentPath) ==
  IF StartsWith(importPath, <<".">>) THEN TRUE
  ELSE IF StartsWith(importPath, <<"@","/">>) \/ StartsWith(importPath, <<"~","/">>) THEN TRUE
  ELSE IF Includes(currentPath, <<"p","a","c","k","a","g","e","s","/">>) \/ Includes(currentPath, <<"a","p","p","s","/">>)
       THEN LET packageName == Split(importPath, "/")[1]
            IN  ~StartsWith(packageName, <<"@">>) /\ packageName # <<".">> /\ packageName # <<".",".">>
       ELSE FALSE

RECURSIVE JsNormalizeFoldNoPop(_, _)
\* JsNormalizeFold that skips ".." as it skips "."
JsNormalizeFoldNoPop(parts, relativeParts) ==
  IF Len(relativeParts) = 0 THEN parts
  ELSE LET part == Head(relativeParts)
           next == IF part # <<".",".">> /\ part # <<".">> THEN Append(parts, part) ELSE parts
       IN  JsNormalizeFoldNoPop(next, Tail(relativeParts))

RECURSIVE JsNormalizeFold(_, _)
\* the for loop of normalizePath: ".." pops, "." is skipped, anything else is pushed
JsNormalizeFold(parts, relativeParts) ==
  IF Len(relativeParts) = 0 THEN parts
  ELSE LET part == Head(relativeParts)
           next == IF part = <<".",".">> THEN SliceInit(parts)
                   ELSE IF part # <<".">> THEN Append(parts, part)
                   ELSE parts
       IN  JsNormalizeFold(next, Tail(relativeParts))

JsNormalizePath(currentDir, relativePath) ==
  Join(JsNormalizeFold(FilterNonEmpty(Split(currentDir, "/")), Split(relativePath, "/")), "/")

JsResolveImportPath(importPath, currentPath) ==
  IF StartsWith(importPath, <<"@","/">>) THEN Substring(importPath, 2)
  ELSE IF StartsWith(importPath, <<"~","/">>) THEN Substring(importPath, 2)
  ELSE IF StartsWith(importPath, <<".","/">>) \/ StartsWith(importPath, <<".",".","/">>)
       THEN JsNormalizePath(Join(SliceInit(Split(currentPath, "/")), "/"), importPath)
  ELSE IF Includes(currentPath, <<"p","a","c","k","a","g","e","s","/">>) \/ Includes(currentPath, <<"a","p","p","s","/">>)
       THEN <<"p","a","c","k","a","g","e","s","/">> \o importPath
  ELSE importPath

\* matchImportToFile without the removal of the extension the import path ends with
JsWithoutExtKept(importPath) == importPath

\* importPath.replace(/\.(tsx?|jsx?|mjs|cjs)$/, "")
JsWithoutExt(importPath) ==
  IF \E i \in 1..Len(JsExts) : EndsWith(importPath, <<".">> \o JsExts[i])
  THEN LET i == CHOOSE k \in 1..Len(JsExts) : EndsWith(importPath, <<".">> \o JsExts[k])
       IN  DropLast(importPath, Len(JsExts[i]) + 1)
  ELSE importPath

\* JsVariations without the six plain extensions: the index files only
JsVariationsIndexOnly(importPath) ==
  LET withoutExt == JsWithoutExt(importPath)
  IN  [i \in 1..Len(JsExts) |-> withoutExt \o <<"/","i","n","d","e","x",".">> \o JsExts[i]]

\* the variations array: the six extensions, then the six index files
JsVariations(importPath) ==
  LET withoutExt == JsWithoutExt(importPath)
  IN  [i \in 1..Len(JsExts) |-> withoutExt \o <<".">> \o JsExts[i]]
      \o [i \in 1..Len(JsExts) |-> withoutExt \o <<"/","i","n","d","e","x",".">> \o JsExts[i]]

\* FirstAvailable without the availableFiles.includes test: the first candidate is taken as found
FirstCandidateUnchecked(candidates, availableFiles) == candidates[1]

\* FirstAvailable searching the file list instead of the candidate list: the first file that is a candidate
FirstInFileOrder(candidates, availableFiles) ==
  IF \E i \in 1..Len(availableFiles) : ArrIncludes(candidates, availableFiles[i])
  THEN availableFiles[CHOOSE i \in 1..Len(availableFiles) :
                        /\ ArrIncludes(candidates, availableFiles[i])
                        /\ \A j \in 1..(i - 1) : ~ArrIncludes(candidates, availableFiles[j])]
  ELSE NULL

\* the first element of candidates that is in availableFiles, or NULL
FirstAvailable(candidates, availableFiles) ==
  IF \E i \in 1..Len(candidates) : ArrIncludes(availableFiles, candidates[i])
  THEN candidates[CHOOSE i \in 1..Len(candidates) :
                    /\ ArrIncludes(availableFiles, candidates[i])
                    /\ \A j \in 1..(i - 1) : ~ArrIncludes(availableFiles, candidates[j])]
  ELSE NULL

RECURSIVE JsMatchImportToFile(_, _)
JsMatchImportToFile(importPath, availableFiles) ==
  IF ArrIncludes(availableFiles, importPath) THEN importPath
  ELSE LET v == FirstAvailable(JsVariations(importPath), availableFiles)
       IN  IF v # NULL THEN v
           ELSE LET r1 == IF StartsWith(importPath, <<"p","a","c","k","a","g","e","s","/">>)
                          THEN JsMatchImportToFile(Substring(importPath, 9), availableFiles)
                          ELSE NULL
                IN  IF r1 # NULL /\ Len(r1) > 0 THEN r1
                    ELSE IF ~StartsWith(importPath, <<"a","p","p","s","/">>) /\ ~StartsWith(importPath, <<"p","a","c","k","a","g","e","s","/">>)
                         THEN LET r2 == JsMatchImportToFile(<<"a","p","p","s","/">> \o importPath, availableFiles)
                              IN  IF r2 # NULL /\ Len(r2) > 0 THEN r2 ELSE NULL
                         ELSE NULL

(***************************************************************************)
(* File text.  A statement is [shape, spec, name]; the shapes name the     *)
(* statement                                                               *)
(* forms the parsers' regular expressions are written for (n is the        *)
(* statement's name field, which no regular expression captures):          *)
(*   ECMAScript  default    import n from "spec"                           *)
(*               named      import {n} from "spec"                         *)
(*               namespace  import * as n from "spec"                      *)
(*               side       import "spec"                                  *)
(*               reexport   export {n} from "spec"                         *)
(*               starexport export * from "spec"                           *)
(*               dynamic    import("spec")                                 *)
(*               require    const n = require("spec")                      *)
(*   Python      import     import spec                                    *)
(*               importas   import spec as n                               *)
(*               from       from spec import n                             *)
(*   both        code       a line with no import in it                    *)
(* Each statement stands on a line of its own.  The empty sequence is the  *)
(* empty text.                                                             *)
(***************************************************************************)

Stmt(shape, spec, name) == [shape |-> shape, spec |-> spec, name |-> name]

\* ["']([^"']+)["'] : the specifier is not empty and holds no quote
JsQuotable(spec) == Len(spec) > 0 /\ \A i \in 1..Len(spec) : spec[i] \notin {"\"", "'"}

\* importRegex: (?:import|export)\s+(?:(?:\{[^}]*\}|\*\s+as\s+\w+|\w+)(?:\s*,\s*(...))*\s+from\s+)?["']([^"']+)["']
\* The clause before "from" is a brace list, "* as n" or a name; with no clause the quote follows the keyword.
\* "export * from" has a clause that is none of the three, "import(" has no blank after the keyword,
\* and require has no keyword at all.
JsImportRegexMatches(st) ==
  st.shape \in {"default", "named", "namespace", "side", "reexport"} /\ JsQuotable(st.spec)

\* dynamicImportRegex: import\s*\(\s*["']([^"']+)["']\s*\)
JsDynamicImportRegexMatches(st) == st.shape = "dynamic" /\ JsQuotable(st.spec)

\* the imports array kept on the parser object and never emptied: a call starts from what the last
\* call returned
JsImportsOfLastCall ==
  IF Len(calls) > 0 /\ calls[Len(calls)].op = "parseImports" THEN calls[Len(calls)].result ELSE <<>>

\* const imports: string[] = []
JsNewImports == <<>>

RECURSIVE JsCollect(_, _, _)
\* one while loop of parseImports over the matches, in text order
JsCollect(matches, currentPath, imports) ==
  IF Len(matches) = 0 THEN imports
  ELSE LET importPath == Head(matches).spec
       IN  JsCollect(Tail(matches), currentPath,
                     IF JsIsInternalImport(importPath, currentPath)
                     THEN Append(imports, JsResolveImportPath(importPath, currentPath))
                     ELSE imports)

JsParseImports(content, currentPath) ==
  LET static == JsCollect(SelectSeq(content, JsImportRegexMatches), currentPath, JsNewImports)
  IN  JsCollect(SelectSeq(content, JsDynamicImportRegexMatches), currentPath, static)

(***************************************************************************)
(* PythonParser (lib/parsers/python-parser.ts)                             *)
(***************************************************************************)

PyStdLibModules ==
  { <<"o","s">>, <<"s","y","s">>, <<"r","e">>, <<"j","s","o","n">>, <<"m","a","t","h">>, <<"t","i","m","e">>, <<"d","a","t","e","t","i","m","e">>, <<"c","o","l","l","e","c","t","i","o","n","s">>,
    <<"i","t","e","r","t","o","o","l","s">>, <<"f","u","n","c","t","o","o","l","s">>, <<"p","a","t","h","l","i","b">>, <<"t","y","p","i","n","g">>, <<"a","s","y","n","c","i","o">>, <<"u","r","l","l","i","b">>, <<"h","t","t","p">>,
    <<"l","o","g","g","i","n","g">>, <<"u","n","i","t","t","e","s","t">>, <<"p","y","t","e","s","t">>, <<"a","b","c">>, <<"i","o">>, <<"c","s","v">>, <<"r","a","n","d","o","m">>, <<"s","t","r","i","n","g">>,
    <<"c","o","p","y">>, <<"p","i","c","k","l","e">>, <<"s","u","b","p","r","o","c","e","s","s">>, <<"t","h","r","e","a","d","i","n","g">>, <<"m","u","l","t","i","p","r","o","c","e","s","s","i","n","g">> }

PyCommonPackages ==
  { <<"d","j","a","n","g","o">>, <<"f","l","a","s","k">>, <<"f","a","s","t","a","p","i">>, <<"r","e","q","u","e","s","t","s">>, <<"n","u","m","p","y">>, <<"p","a","n","d","a","s">>, <<"s","q","l","a","l","c","h","e","m","y">>,
    <<"p","y","d","a","n","t","i","c">>, <<"p","y","t","e","s","t">>, <<"c","l","i","c","k">>, <<"b","o","t","o","3">>, <<"c","e","l","e","r","y">>, <<"r","e","d","i","s">> }

PyIsExternalModule(modulePath) ==
  LET topLevelModule == Split(modulePath, ".")[1]
  IN  topLevelModule \in PyStdLibModules \/ topLevelModule \in PyCommonPackages

PyResolveImportPath(modulePath, currentPath) == DotsToSlashes(modulePath) \o <<".","p","y">>

\* the number of leading dots: relativePath.match(/^\.+/)
LeadingDots(s) ==
  IF \A i \in 1..Len(s) : s[i] = "." THEN Len(s)
  ELSE (CHOOSE k \in 1..Len(s) : s[k] # "." /\ \A j \in 1..(k - 1) : s[j] = ".") - 1

\* PyResolveRelativeImport that drops an import with no module after the dots
PyResolveRelativeImportModuleOnly(relativePath, currentPath) ==
  LET dotCount == LeadingDots(relativePath)
  IN  IF dotCount = 0 THEN NULL
      ELSE LET modulePart == Substring(relativePath, dotCount)
               currentDir == SliceInit(Split(currentPath, "/"))
               targetDir  == SliceTo(currentDir, Len(currentDir) - (dotCount - 1))
           IN  IF Len(targetDir) = 0 THEN NULL
               ELSE IF Len(modulePart) > 0
                    THEN Join(targetDir, "/") \o <<"/">> \o DotsToSlashes(modulePart) \o <<".","p","y">>
                    ELSE NULL

PyResolveRelativeImport(relativePath, currentPath) ==
  LET dotCount == LeadingDots(relativePath)
  IN  IF dotCount = 0 THEN NULL
      ELSE LET modulePart == Substring(relativePath, dotCount)
               currentDir == SliceInit(Split(currentPath, "/"))
               targetDir  == SliceTo(currentDir, Len(currentDir) - (dotCount - 1))
           IN  IF Len(targetDir) = 0 THEN NULL
               ELSE IF Len(modulePart) > 0
                    THEN Join(targetDir, "/") \o <<"/">> \o DotsToSlashes(modulePart) \o <<".","p","y">>
                    ELSE Join(targetDir, "/") \o <<"/","_","_","i","n","i","t","_","_",".","p","y">>

\* [\w.]+
PyModuleChars(s) == Len(s) > 0 /\ \A i \in 1..Len(s) : s[i] \in WordChars \cup {"."}

\* simpleImportRegex: ^import\s+([\w.]+)(?:\s+as\s+\w+)?$
PySimpleImportRegexMatches(st) == st.shape \in {"import", "importas"} /\ PyModuleChars(st.spec)

\* fromImportRegex: ^from\s+([\w.]+)\s+import\s+  (the class [\w.] takes leading dots too)
PyFromImportRegexMatches(st) == st.shape = "from" /\ PyModuleChars(st.spec)

\* relativeImportRegex: ^from\s+(\.+[\w.]*)\s+import\s+
PyRelativeImportRegexMatches(st) ==
  st.shape = "from" /\ PyModuleChars(st.spec) /\ StartsWith(st.spec, <<".">>)

\* const imports: string[] = []
PyNewImports == <<>>

RECURSIVE PyCollectAbsolute(_, _, _)
\* the first two while loops of parseImports
PyCollectAbsolute(matches, currentPath, imports) ==
  IF Len(matches) = 0 THEN imports
  ELSE LET modulePath == Head(matches).spec
           resolvedPath == PyResolveImportPath(modulePath, currentPath)
       IN  PyCollectAbsolute(Tail(matches), currentPath,
             IF PyIsExternalModule(modulePath) THEN imports
             ELSE IF resolvedPath # NULL /\ Len(resolvedPath) > 0 THEN Append(imports, resolvedPath)
             ELSE imports)

RECURSIVE PyCollectRelative(_, _, _)
\* the third while loop of parseImports
PyCollectRelative(matches, currentPath, imports) ==
  IF Len(matches) = 0 THEN imports
  ELSE LET resolvedPath == PyResolveRelativeImport(Head(matches).spec, currentPath)
       IN  PyCollectRelative(Tail(matches), currentPath,
             IF resolvedPath # NULL /\ Len(resolvedPath) > 0 THEN Append(imports, resolvedPath)
             ELSE imports)

PyParseImports(content, currentPath) ==
  LET simple == PyCollectAbsolute(SelectSeq(content, PySimpleImportRegexMatches), currentPath, PyNewImports)
      from   == PyCollectAbsolute(SelectSeq(content, PyFromImportRegexMatches), currentPath, simple)
  IN  PyCollectRelative(SelectSeq(content, PyRelativeImportRegexMatches), currentPath, from)

PyMatchImportToFile(importPath, availableFiles) ==
  IF ArrIncludes(availableFiles, importPath) THEN importPath
  ELSE IF ~EndsWith(importPath, <<".","p","y">>) /\ ArrIncludes(availableFiles, importPath \o <<".","p","y">>)
       THEN importPath \o <<".","p","y">>
  ELSE LET asPackage == (IF EndsWith(importPath, <<".","p","y">>) THEN DropLast(importPath, 3) ELSE importPath)
                        \o <<"/","_","_","i","n","i","t","_","_",".","p","y">>
           withoutExt == IF EndsWith(importPath, <<".","p","y","i">>) THEN DropLast(importPath, 4)
                         ELSE IF EndsWith(importPath, <<".","p","y">>) THEN DropLast(importPath, 3)
                         ELSE importPath
       IN  IF ArrIncludes(availableFiles, asPackage) THEN asPackage
           ELSE FirstAvailable(<< withoutExt \o <<".","p","y">>, withoutExt \o <<".","p","y","i">>,
                                  withoutExt \o <<"/","_","_","i","n","i","t","_","_",".","p","y">> >>, availableFiles)

(***************************************************************************)
(* Language registry (lib/parsers/language-configs.ts)                     *)
(***************************************************************************)

\* LANGUAGE_CONFIGS, in priority order.  fileTypes keeps the object's key order.
LANGUAGE_CONFIGS == <<
  [ id |-> <<"j","a","v","a","s","c","r","i","p","t">>,
    aliases |-> << <<"t","y","p","e","s","c","r","i","p","t">>, <<"t","s","x">>, <<"j","s","x">>, <<"j","s">>, <<"t","s">> >>,
    extensions |-> << <<".","j","s">>, <<".","j","s","x">>, <<".","t","s">>, <<".","t","s","x">>, <<".","m","j","s">>, <<".","c","j","s">> >>,
    excludePatterns |-> << <<"n","o","d","e","_","m","o","d","u","l","e","s">>, <<".","d",".","t","s">>, <<".","t","e","s","t",".">>, <<".","s","p","e","c",".">>, <<"d","i","s","t","/">>, <<"b","u","i","l","d","/">>, <<".","n","e","x","t","/">> >>,
    manifestFiles |-> << <<"p","a","c","k","a","g","e",".","j","s","o","n">>, <<"t","s","c","o","n","f","i","g",".","j","s","o","n">>, <<"y","a","r","n",".","l","o","c","k">>, <<"p","a","c","k","a","g","e","-","l","o","c","k",".","j","s","o","n">>, <<"p","n","p","m","-","l","o","c","k",".","y","a","m","l">> >>,
    fileTypes |-> << <<"component", << <<"/","c","o","m","p","o","n","e","n","t","s","/">>, <<".","t","s","x">>, <<".","j","s","x">> >> >>,
                     <<"api", << <<"/","a","p","i","/">>, <<"r","o","u","t","e",".","t","s">>, <<"r","o","u","t","e",".","j","s">> >> >>,
                     <<"util", << <<"/","u","t","i","l","s","/">>, <<"/","l","i","b","/">>, <<"/","h","e","l","p","e","r","s","/">> >> >>,
                     <<"page", << <<"/","a","p","p","/">>, <<"/","p","a","g","e","s","/">>, <<"p","a","g","e",".">> >> >>,
                     <<"config", << <<"c","o","n","f","i","g">>, <<".","c","o","n","f","i","g",".">> >> >>,
                     <<"style", << <<".","c","s","s">>, <<".","s","c","s","s">>, <<".","s","a","s","s">> >> >>,
                     <<"hook", << <<"/","h","o","o","k","s","/">>, <<"u","s","e">> >> >>,
                     <<"service", << <<"/","s","e","r","v","i","c","e","s","/">> >> >>,
                     <<"middleware", << <<"/","m","i","d","d","l","e","w","a","r","e","/">>, <<"m","i","d","d","l","e","w","a","r","e",".">> >> >>,
                     <<"other", << >> >> >> ],
  [ id |-> <<"p","y","t","h","o","n">>,
    aliases |-> << <<"p","y">> >>,
    extensions |-> << <<".","p","y">>, <<".","p","y","i">>, <<".","p","y","w">> >>,
    excludePatterns |-> << <<"_","_","p","y","c","a","c","h","e","_","_">>, <<".","p","y","c">>, <<".","p","y","o">>, <<".","p","y","d">>, <<"v","e","n","v","/">>, <<".","v","e","n","v","/">>, <<"e","n","v","/">>, <<".","p","y","t","e","s","t","_","c","a","c","h","e","/">>, <<"d","i","s","t","/">>, <<"b","u","i","l","d","/">> >>,
    manifestFiles |-> << <<"r","e","q","u","i","r","e","m","e","n","t","s",".","t","x","t">>, <<"s","e","t","u","p",".","p","y">>, <<"p","y","p","r","o","j","e","c","t",".","t","o","m","l">>, <<"P","i","p","f","i","l","e">>, <<"p","o","e","t","r","y",".","l","o","c","k">>, <<"s","e","t","u","p",".","c","f","g">> >>,
    fileTypes |-> << <<"model", << <<"/","m","o","d","e","l","s","/">>, <<"_","m","o","d","e","l",".","p","y">>, <<"/","e","n","t","i","t","i","e","s","/">> >> >>,
                     <<"view", << <<"/","v","i","e","w","s","/">>, <<"_","v","i","e","w",".","p","y">> >> >>,
                     <<"controller", << <<"/","c","o","n","t","r","o","l","l","e","r","s","/">>, <<"_","c","o","n","t","r","o","l","l","e","r",".","p","y">> >> >>,
                     <<"service", << <<"/","s","e","r","v","i","c","e","s","/">>, <<"_","s","e","r","v","i","c","e",".","p","y">> >> >>,
                     <<"util", << <<"/","u","t","i","l","s","/">>, <<"/","h","e","l","p","e","r","s","/">>, <<"_","u","t","i","l","s",".","p","y">> >> >>,
                     <<"test", << <<"/","t","e","s","t","s","/">>, <<"_","t","e","s","t",".","p","y">>, <<"t","e","s","t","_">> >> >>,
                     <<"config", << <<"c","o","n","f","i","g",".","p","y">>, <<"s","e","t","t","i","n","g","s",".","p","y">> >> >>,
                     <<"api", << <<"/","a","p","i","/">>, <<"/","e","n","d","p","o","i","n","t","s","/">> >> >>,
                     <<"middleware", << <<"/","m","i","d","d","l","e","w","a","r","e","/">> >> >>,
                     <<"other", << >> >> >> ],
  [ id |-> <<"g","o">>,
    aliases |-> << <<"g","o","l","a","n","g">> >>,
    extensions |-> << <<".","g","o">> >>,
    excludePatterns |-> << <<"/","v","e","n","d","o","r","/">>, <<"_","t","e","s","t",".","g","o">>, <<"/","t","e","s","t","d","a","t","a","/">> >>,
    manifestFiles |-> << <<"g","o",".","m","o","d">>, <<"g","o",".","s","u","m">> >>,
    fileTypes |-> << <<"handler", << <<"/","h","a","n","d","l","e","r","s","/">>, <<"/","c","o","n","t","r","o","l","l","e","r","s","/">>, <<"_","h","a","n","d","l","e","r",".","g","o">> >> >>,
                     <<"model", << <<"/","m","o","d","e","l","s","/">>, <<"/","e","n","t","i","t","i","e","s","/">>, <<"_","m","o","d","e","l",".","g","o">> >> >>,
                     <<"service", << <<"/","s","e","r","v","i","c","e","s","/">>, <<"_","s","e","r","v","i","c","e",".","g","o">> >> >>,
                     <<"util", << <<"/","u","t","i","l","s","/">>, <<"/","p","k","g","/">> >> >>,
                     <<"test", << <<"_","t","e","s","t",".","g","o">> >> >>,
                     <<"middleware", << <<"/","m","i","d","d","l","e","w","a","r","e","/">> >> >>,
                     <<"api", << <<"/","a","p","i","/">> >> >>,
                     <<"config", << <<"c","o","n","f","i","g",".","g","o">> >> >>,
                     <<"other", << >> >> >> ],
  [ id |-> <<"r","u","s","t">>,
    aliases |-> << <<"r","s">> >>,
    extensions |-> << <<".","r","s">> >>,
    excludePatterns |-> << <<"/","t","a","r","g","e","t","/">>, <<"/","d","e","p","s","/">> >>,
    manifestFiles |-> << <<"C","a","r","g","o",".","t","o","m","l">>, <<"C","a","r","g","o",".","l","o","c","k">> >>,
    fileTypes |-> << <<"model", << <<"/","m","o","d","e","l","s","/">>, <<"/","e","n","t","i","t","i","e","s","/">> >> >>,
                     <<"service", << <<"/","s","e","r","v","i","c","e","s","/">> >> >>,
                     <<"util", << <<"/","u","t","i","l","s","/">>, <<"/","h","e","l","p","e","r","s","/">> >> >>,
                     <<"handler", << <<"/","h","a","n","d","l","e","r","s","/">>, <<"/","r","o","u","t","e","s","/">> >> >>,
                     <<"api", << <<"/","a","p","i","/">> >> >>,
                     <<"config", << <<"c","o","n","f","i","g",".","r","s">> >> >>,
                     <<"test", << <<"/","t","e","s","t","s","/">>, <<"_","t","e","s","t",".","r","s">> >> >>,
                     <<"other", << >> >> >> ],
  [ id |-> <<"j","a","v","a">>,
    aliases |-> << >>,
    extensions |-> << <<".","j","a","v","a">> >>,
    excludePatterns |-> << <<"/","t","a","r","g","e","t","/">>, <<"/","b","u","i","l","d","/">>, <<".","c","l","a","s","s">> >>,
    manifestFiles |-> << <<"p","o","m",".","x","m","l">>, <<"b","u","i","l","d",".","g","r","a","d","l","e">>, <<"b","u","i","l","d",".","g","r","a","d","l","e",".","k","t","s">>, <<"s","e","t","t","i","n","g","s",".","g","r","a","d","l","e">> >>,
    fileTypes |-> << <<"controller", << <<"/","c","o","n","t","r","o","l","l","e","r","/">>, <<"C","o","n","t","r","o","l","l","e","r",".","j","a","v","a">> >> >>,
                     <<"service", << <<"/","s","e","r","v","i","c","e","/">>, <<"S","e","r","v","i","c","e",".","j","a","v","a">> >> >>,
                     <<"model", << <<"/","m","o","d","e","l","/">>, <<"/","e","n","t","i","t","y","/">>, <<"E","n","t","i","t","y",".","j","a","v","a">> >> >>,
                     <<"repository", << <<"/","r","e","p","o","s","i","t","o","r","y","/">>, <<"R","e","p","o","s","i","t","o","r","y",".","j","a","v","a">> >> >>,
                     <<"util", << <<"/","u","t","i","l","/">>, <<"U","t","i","l","s",".","j","a","v","a">> >> >>,
                     <<"config", << <<"/","c","o","n","f","i","g","/">>, <<"C","o","n","f","i","g",".","j","a","v","a">> >> >>,
                     <<"api", << <<"/","a","p","i","/">> >> >>,
                     <<"test", << <<"/","t","e","s","t","/">>, <<"T","e","s","t",".","j","a","v","a">> >> >>,
                     <<"other", << >> >> >> ],
  [ id |-> <<"c","p","p">>,
    aliases |-> << <<"c">>, <<"c","+","+">>, <<"c","x","x">> >>,
    extensions |-> << <<".","c","p","p">>, <<".","c","c">>, <<".","c","x","x">>, <<".","c">>, <<".","h">>, <<".","h","p","p">>, <<".","h","x","x">> >>,
    excludePatterns |-> << <<"/","b","u","i","l","d","/">>, <<"/","c","m","a","k","e","-","b","u","i","l","d","-">>, <<".","o">>, <<".","a">>, <<".","s","o">> >>,
    manifestFiles |-> << <<"C","M","a","k","e","L","i","s","t","s",".","t","x","t">>, <<"M","a","k","e","f","i","l","e">>, <<"c","o","n","f","i","g","u","r","e",".","a","c">> >>,
    fileTypes |-> << <<"header", << <<".","h">>, <<".","h","p","p">>, <<".","h","x","x">> >> >>,
                     <<"source", << <<".","c","p","p">>, <<".","c","c">>, <<".","c","x","x">>, <<".","c">> >> >>,
                     <<"util", << <<"/","u","t","i","l","s","/">>, <<"/","h","e","l","p","e","r","s","/">> >> >>,
                     <<"test", << <<"/","t","e","s","t","s","/">>, <<"_","t","e","s","t",".">> >> >>,
                     <<"config", << <<"c","o","n","f","i","g",".">> >> >>,
                     <<"other", << >> >> >> ],
  [ id |-> <<"r","u","b","y">>,
    aliases |-> << <<"r","b">> >>,
    extensions |-> << <<".","r","b">>, <<".","r","a","k","e">> >>,
    excludePatterns |-> << <<"/","v","e","n","d","o","r","/">>, <<".","b","u","n","d","l","e","/">> >>,
    manifestFiles |-> << <<"G","e","m","f","i","l","e">>, <<"G","e","m","f","i","l","e",".","l","o","c","k">>, <<"R","a","k","e","f","i","l","e">> >>,
    fileTypes |-> << <<"controller", << <<"/","c","o","n","t","r","o","l","l","e","r","s","/">>, <<"_","c","o","n","t","r","o","l","l","e","r",".","r","b">> >> >>,
                     <<"model", << <<"/","m","o","d","e","l","s","/">>, <<"_","m","o","d","e","l",".","r","b">> >> >>,
                     <<"view", << <<"/","v","i","e","w","s","/">> >> >>,
                     <<"service", << <<"/","s","e","r","v","i","c","e","s","/">>, <<"_","s","e","r","v","i","c","e",".","r","b">> >> >>,
                     <<"util", << <<"/","l","i","b","/">>, <<"/","h","e","l","p","e","r","s","/">> >> >>,
                     <<"test", << <<"/","t","e","s","t","/">>, <<"/","s","p","e","c","/">>, <<"_","s","p","e","c",".","r","b">> >> >>,
                     <<"config", << <<"/","c","o","n","f","i","g","/">> >> >>,
                     <<"other", << >> >> >> ],
  [ id |-> <<"p","h","p">>,
    aliases |-> << >>,
    extensions |-> << <<".","p","h","p">> >>,
    excludePatterns |-> << <<"/","v","e","n","d","o","r","/">>, <<"/","c","a","c","h","e","/">> >>,
    manifestFiles |-> << <<"c","o","m","p","o","s","e","r",".","j","s","o","n">>, <<"c","o","m","p","o","s","e","r",".","l","o","c","k">> >>,
    fileTypes |-> << <<"controller", << <<"/","C","o","n","t","r","o","l","l","e","r","s","/">>, <<"C","o","n","t","r","o","l","l","e","r",".","p","h","p">> >> >>,
                     <<"model", << <<"/","M","o","d","e","l","s","/">>, <<"M","o","d","e","l",".","p","h","p">> >> >>,
                     <<"service", << <<"/","S","e","r","v","i","c","e","s","/">>, <<"S","e","r","v","i","c","e",".","p","h","p">> >> >>,
                     <<"view", << <<"/","v","i","e","w","s","/">>, <<"/","t","e","m","p","l","a","t","e","s","/">> >> >>,
                     <<"util", << <<"/","U","t","i","l","s","/">>, <<"/","H","e","l","p","e","r","s","/">> >> >>,
                     <<"middleware", << <<"/","M","i","d","d","l","e","w","a","r","e","/">> >> >>,
                     <<"test", << <<"/","t","e","s","t","s","/">>, <<"T","e","s","t",".","p","h","p">> >> >>,
                     <<"config", << <<"/","c","o","n","f","i","g","/">> >> >>,
                     <<"other", << >> >> >> ] >>

\* the index in LANGUAGE_CONFIGS of the first config that find() accepts, 0 when there is none
GetLanguageConfigIndex(languageId) ==
  LET ok(i) == LANGUAGE_CONFIGS[i].id = languageId
               \/ ArrIncludes(LANGUAGE_CONFIGS[i].aliases, ToLowerCase(languageId))
  IN  IF \E i \in 1..Len(LANGUAGE_CONFIGS) : ok(i)
      THEN CHOOSE i \in 1..Len(LANGUAGE_CONFIGS) : ok(i) /\ \A j \in 1..(i - 1) : ~ok(j)
      ELSE 0

\* getFileType of both parsers: the first type, in key order, one of whose patterns the path includes
GetFileType(config, path) ==
  LET hit(i) == \E k \in 1..Len(config.fileTypes[i][2]) : Includes(path, config.fileTypes[i][2][k])
  IN  IF \E i \in 1..Len(config.fileTypes) : hit(i)
      THEN config.fileTypes[CHOOSE i \in 1..Len(config.fileTypes) : hit(i) /\ \A j \in 1..(i - 1) : ~hit(j)][1]
      ELSE "other"

(***************************************************************************)
(* LanguageDetector (lib/parsers/language-detector.ts)                     *)
(*                                                                         *)
(* A detection is [language, confidence, method, metadata]; a confidence   *)
(* is the pair <<numerator, denominator>> of the quotient the code         *)
(* computes.  The answer of the provider's languages endpoint is           *)
(* [kind, languages]: kind "ok" carries the byte table as the sequence of  *)
(* <<name, bytes>> in the key order of the JSON object; "notok" is a       *)
(* non-OK status, "throw" a rejected fetch, "badjson" a body that          *)
(* response.json() rejects.                                                *)
(***************************************************************************)

\* a method that returns null
NoDetection == [language |-> NULL, confidence |-> <<0, 1>>, method |-> "none", metadata |-> <<>>]

\* this.configs.get(key) after the constructor: the writes of a later config overwrite those of an earlier one
ConfigsGet(key) ==
  LET wrote(i) == LANGUAGE_CONFIGS[i].id = key
                  \/ \E k \in 1..Len(LANGUAGE_CONFIGS[i].aliases) :
                        ToLowerCase(LANGUAGE_CONFIGS[i].aliases[k]) = key
  IN  IF \E i \in 1..Len(LANGUAGE_CONFIGS) : wrote(i)
      THEN CHOOSE i \in 1..Len(LANGUAGE_CONFIGS) :
             wrote(i) /\ \A j \in (i + 1)..Len(LANGUAGE_CONFIGS) : ~wrote(j)
      ELSE 0

\* getConfig(languageId): the index of the config, 0 for undefined
GetConfig(languageId) == ConfigsGet(ToLowerCase(languageId))

\* the manual mappings table of mapGitHubLanguageToId
GitHubMappings ==
  << << <<"t","y","p","e","s","c","r","i","p","t">>, <<"j","a","v","a","s","c","r","i","p","t">> >>, << <<"t","s","x">>, <<"j","a","v","a","s","c","r","i","p","t">> >>, << <<"j","s","x">>, <<"j","a","v","a","s","c","r","i","p","t">> >>,
     << <<"c","+","+">>, <<"c","p","p">> >>, << <<"c","#">>, <<"c","s","h","a","r","p">> >> >>

\* mapGitHubLanguageToId answering the default identifier for a name it does not know
MapGitHubLanguageToIdDefaulting(githubLanguage) ==
  LET normalized == ToLowerCase(githubLanguage)
      c == ConfigsGet(normalized)
  IN  IF c # 0 THEN LANGUAGE_CONFIGS[c].id
      ELSE IF \E k \in 1..Len(GitHubMappings) : GitHubMappings[k][1] = normalized
           THEN GitHubMappings[CHOOSE k \in 1..Len(GitHubMappings) : GitHubMappings[k][1] = normalized][2]
           ELSE <<"j","a","v","a","s","c","r","i","p","t">>

MapGitHubLanguageToId(githubLanguage) ==
  LET normalized == ToLowerCase(githubLanguage)
      c == ConfigsGet(normalized)
  IN  IF c # 0 THEN LANGUAGE_CONFIGS[c].id
      ELSE IF \E k \in 1..Len(GitHubMappings) : GitHubMappings[k][1] = normalized
           THEN GitHubMappings[CHOOSE k \in 1..Len(GitHubMappings) : GitHubMappings[k][1] = normalized][2]
           ELSE normalized

RECURSIVE SumBytes(_)
SumBytes(languages) ==
  IF Len(languages) = 0 THEN 0 ELSE Head(languages)[2] + SumBytes(Tail(languages))

\* sortedLanguages[0] of a stable sort by descending count: the first entry with the largest count
FirstLargest(entries) ==
  entries[CHOOSE i \in 1..Len(entries) :
            /\ \A j \in 1..Len(entries) : entries[j][2] <= entries[i][2]
            /\ \A j \in 1..(i - 1) : entries[j][2] < entries[i][2]]

\* an exception on its way out of a method
Thrown == [language |-> NULL, confidence |-> <<0, 1>>, method |-> "throw", metadata |-> <<>>]

\* the body of the try block of detectFromGitHubAPI: fetch and response.json() may reject
GitHubAPIAttempt(resp) ==
  IF resp.kind \in {"throw", "badjson"} THEN Thrown
  ELSE IF resp.kind # "ok" THEN NoDetection
  ELSE LET totalBytes == SumBytes(resp.languages)
       IN  IF totalBytes = 0 THEN NoDetection
           ELSE LET primary == FirstLargest(resp.languages)
                IN  [ language |-> MapGitHubLanguageToId(primary[1]),
                      confidence |-> <<primary[2], totalBytes>>,
                      method |-> "github-api",
                      metadata |-> resp.languages ]

\* detectFromGitHubAPI: its catch turns every exception into null
DetectFromGitHubAPI(resp) ==
  LET attempt == GitHubAPIAttempt(resp)
  IN  IF attempt = Thrown THEN NoDetection ELSE attempt

\* tree.filter(blob).map(path.toLowerCase())
LowerBlobPaths(items) ==
  LET blobs == SelectSeq(items, LAMBDA it : it.type = "blob")
  IN  [i \in 1..Len(blobs) |-> ToLowerCase(blobs[i].path)]

RECURSIVE ManifestsOfConfig(_, _, _)
\* the inner loop of detectFromManifests: the manifest files of one config that are in filePaths
ManifestsOfConfig(config, k, filePaths) ==
  IF k > Len(config.manifestFiles) THEN <<>>
  ELSE (IF ArrIncludes(filePaths, ToLowerCase(config.manifestFiles[k]))
        THEN << [language |-> config.id, file |-> config.manifestFiles[k]] >>
        ELSE <<>>)
       \o ManifestsOfConfig(config, k + 1, filePaths)

RECURSIVE DetectedManifests(_, _)
\* the outer loop of detectFromManifests, from config i on
DetectedManifests(i, filePaths) ==
  IF i > Len(LANGUAGE_CONFIGS) THEN <<>>
  ELSE ManifestsOfConfig(LANGUAGE_CONFIGS[i], 1, filePaths) \o DetectedManifests(i + 1, filePaths)

\* detectFromManifests taking the manifest found last and scoring by the number found
DetectFromManifestsLastFound(items) ==
  LET detectedManifests == DetectedManifests(1, LowerBlobPaths(items))
  IN  IF Len(detectedManifests) = 0 THEN NoDetection
      ELSE [ language |-> detectedManifests[Len(detectedManifests)].language,
             confidence |-> <<7 + Len(detectedManifests), 10>>,
             method |-> "manifest",
             metadata |-> [i \in 1..Len(detectedManifests) |-> detectedManifests[i].file] ]

DetectFromManifests(items) ==
  LET detectedManifests == DetectedManifests(1, LowerBlobPaths(items))
  IN  IF Len(detectedManifests) = 0 THEN NoDetection
      ELSE [ language |-> detectedManifests[1].language,
             confidence |-> <<8, 10>>,
             method |-> "manifest",
             metadata |-> [i \in 1..Len(detectedManifests) |-> detectedManifests[i].file] ]

\* path.match(/(\.[^/.]+)$/): the last dot and what follows it, when that is not empty and holds no slash
GetExtension(path) ==
  IF \E k \in 1..(Len(path) - 1) : path[k] = "." /\ \A j \in (k + 1)..Len(path) : path[j] \notin {"/", "."}
  THEN LET k == CHOOSE k \in 1..(Len(path) - 1) :
                  path[k] = "." /\ \A j \in (k + 1)..Len(path) : path[j] \notin {"/", "."}
       IN  SubSeq(path, k, Len(path))
  ELSE NULL

\* findLanguageByExtension: the id of the first config that lists the extension, or NULL
FindLanguageByExtension(extension) ==
  IF \E i \in 1..Len(LANGUAGE_CONFIGS) : ArrIncludes(LANGUAGE_CONFIGS[i].extensions, extension)
  THEN LANGUAGE_CONFIGS[CHOOSE i \in 1..Len(LANGUAGE_CONFIGS) :
                          /\ ArrIncludes(LANGUAGE_CONFIGS[i].extensions, extension)
                          /\ \A j \in 1..(i - 1) : ~ArrIncludes(LANGUAGE_CONFIGS[j].extensions, extension)].id
  ELSE NULL

\* counts[key] = (counts[key] || 0) + n on an object kept as the sequence of <<key, count>> in insertion order
CountsAdd(counts, key, n) ==
  IF \E i \in 1..Len(counts) : counts[i][1] = key
  THEN [i \in 1..Len(counts) |-> IF counts[i][1] = key THEN <<key, counts[i][2] + n>> ELSE counts[i]]
  ELSE Append(counts, <<key, n>>)

RECURSIVE ExtensionCounts(_, _)
\* the first loop of detectFromExtensions
ExtensionCounts(items, counts) ==
  IF Len(items) = 0 THEN counts
  ELSE LET item == Head(items)
           ext == GetExtension(item.path)
       IN  ExtensionCounts(Tail(items),
             IF item.type # "blob" THEN counts
             ELSE IF ext # NULL THEN CountsAdd(counts, ext, 1)
             ELSE counts)

RECURSIVE LanguageCounts(_, _)
\* the second loop of detectFromExtensions, over Object.entries(extensionCounts)
LanguageCounts(extensionCounts, counts) ==
  IF Len(extensionCounts) = 0 THEN counts
  ELSE LET languageId == FindLanguageByExtension(Head(extensionCounts)[1])
       IN  LanguageCounts(Tail(extensionCounts),
             IF languageId # NULL THEN CountsAdd(counts, languageId, Head(extensionCounts)[2])
             ELSE counts)

DetectFromExtensions(items) ==
  LET languageCounts == LanguageCounts(ExtensionCounts(items, <<>>), <<>>)
  IN  IF Len(languageCounts) = 0 THEN NoDetection
      ELSE LET primary == FirstLargest(languageCounts)
           IN  [ language |-> primary[1],
                 confidence |-> <<primary[2], SumBytes(languageCounts)>>,
                 method |-> "extension",
                 metadata |-> <<>> ]

\* the default of detectLanguage
DefaultDetection ==
  [language |-> <<"j","a","v","a","s","c","r","i","p","t">>, confidence |-> <<3, 10>>, method |-> "manual", metadata |-> <<>>]

\* detectLanguage trying the manifests before the provider's statistics
DetectLanguageManifestFirst(resp, treeArg) ==
  LET d2 == IF treeArg.present THEN DetectFromManifests(treeArg.items) ELSE NoDetection
  IN  IF d2.method # "none" THEN d2
      ELSE LET d1 == DetectFromGitHubAPI(resp)
           IN  IF d1.method # "none" THEN d1
               ELSE LET d3 == IF treeArg.present THEN DetectFromExtensions(treeArg.items) ELSE NoDetection
                    IN  IF d3.method # "none" THEN d3 ELSE DefaultDetection

\* detectLanguage with no try and catch around the provider's answer, here or in detectFromGitHubAPI
DetectLanguageUncaught(resp, treeArg) ==
  LET d1 == GitHubAPIAttempt(resp)
  IN  IF d1.method # "none" THEN d1
      ELSE LET d2 == IF treeArg.present THEN DetectFromManifests(treeArg.items) ELSE NoDetection
           IN  IF d2.method # "none" THEN d2
               ELSE LET d3 == IF treeArg.present THEN DetectFromExtensions(treeArg.items) ELSE NoDetection
                    IN  IF d3.method # "none" THEN d3 ELSE DefaultDetection

\* detectLanguage(owner, repo, headers, tree?): treeArg is [present, items]; its own catch around
\* detectFromGitHubAPI lets an exception of that call count as no detection
DetectLanguage(resp, treeArg) ==
  LET d1 == DetectFromGitHubAPI(resp)
  IN  IF d1.method \notin {"none", "throw"} THEN d1
      ELSE LET d2 == IF treeArg.present THEN DetectFromManifests(treeArg.items) ELSE NoDetection
           IN  IF d2.method # "none" THEN d2
               ELSE LET d3 == IF treeArg.present THEN DetectFromExtensions(treeArg.items) ELSE NoDetection
                    IN  IF d3.method # "none" THEN d3 ELSE DefaultDetection

\* the methods detectLanguage runs on the way to its result, in order
MethodsRun(resp, treeArg) ==
  LET d1 == DetectFromGitHubAPI(resp)
      d2 == IF treeArg.present THEN DetectFromManifests(treeArg.items) ELSE NoDetection
  IN  <<"github-api">>
      \o (IF d1.method = "none" /\ treeArg.present THEN <<"manifest">> ELSE <<>>)
      \o (IF d1.method = "none" /\ d2.method = "none" /\ treeArg.present THEN <<"extension">> ELSE <<>>)

(***************************************************************************)
(* ParserRegistry (lib/parsers/parser-registry.ts).  The two parser        *)
(* objects are "js" (JavaScriptParser) and "py" (PythonParser).            *)
(***************************************************************************)

\* registerDefaultParsers
DefaultParsers ==
  [k \in { <<"j","a","v","a","s","c","r","i","p","t">>, <<"t","y","p","e","s","c","r","i","p","t">>, <<"j","s">>, <<"t","s">>, <<"j","s","x">>, <<"t","s","x">>, <<"p","y","t","h","o","n">>, <<"p","y">> } |->
     IF k \in { <<"p","y","t","h","o","n">>, <<"p","y">> } THEN "py" ELSE "js"]

\* getParser on the registry map m
GetParser(m, languageId) ==
  IF ToLowerCase(languageId) \in DOMAIN m THEN m[ToLowerCase(languageId)] ELSE m[<<"j","a","v","a","s","c","r","i","p","t">>]

HasParser(m, languageId) == ToLowerCase(languageId) \in DOMAIN m

\* registerParser that leaves an entry alone once it is there
RegisterParserKeepFirst(m, languageId, p) ==
  [k \in DOMAIN m \cup {ToLowerCase(languageId)} |-> IF k \in DOMAIN m THEN m[k] ELSE p]

\* registerParser(languageId, parser): this.parsers.set(languageId.toLowerCase(), parser)
RegisterParser(m, languageId, p) ==
  [k \in DOMAIN m \cup {ToLowerCase(languageId)} |-> IF k = ToLowerCase(languageId) THEN p ELSE m[k]]

\* this.config of a parser object: getLanguageConfig("javascript") or getLanguageConfig("python")
ParserConfig(p) ==
  LANGUAGE_CONFIGS[GetLanguageConfigIndex(IF p = "py" THEN <<"p","y","t","h","o","n">> ELSE <<"j","a","v","a","s","c","r","i","p","t">>)]

ParseImports(p, content, currentPath) ==
  IF p = "py" THEN PyParseImports(content, currentPath) ELSE JsParseImports(content, currentPath)

MatchImportToFile(p, importPath, availableFiles) ==
  IF p = "py" THEN PyMatchImportToFile(importPath, availableFiles)
  ELSE JsMatchImportToFile(importPath, availableFiles)

(***************************************************************************)
(* The graph build of GET (app/api/dependencies/route.ts)                  *)
(*                                                                         *)
(* fileContents is the array Promise.all resolves to, of [path, content].  *)
(* The node map is the sequence of its values in insertion order; a graph  *)
(* is [nodes, edges].                                                      *)
(***************************************************************************)

\* the program's size caps
MAX_CODE_FILES == 200
MAX_FILE_BYTES == 50000

\* a JavaScript truthiness test of a string | null
Truthy(s) == s # NULL /\ Len(s) > 0

\* the index of the node with this path in the node map, 0 when nodes.get(path) is undefined
NodeIndex(ns, path) ==
  IF \E i \in 1..Len(ns) : ns[i].path = path
  THEN CHOOSE i \in 1..Len(ns) : ns[i].path = path
  ELSE 0

\* nodes.set(node.path, node): a known key keeps its place in the map
MapSet(ns, node) ==
  IF NodeIndex(ns, node.path) # 0
  THEN [i \in 1..Len(ns) |-> IF ns[i].path = node.path THEN node ELSE ns[i]]
  ELSE Append(ns, node)

RECURSIVE InitializeNodesWithContent(_, _, _)
\* the node loop skipping the files without content, as the edge loop does
InitializeNodesWithContent(p, files, ns) ==
  IF Len(files) = 0 THEN ns
  ELSE InitializeNodesWithContent(p, Tail(files),
         IF Len(Head(files).content) = 0 THEN ns
         ELSE MapSet(ns, [ path |-> Head(files).path,
                           type |-> GetFileType(ParserConfig(p), Head(files).path),
                           imports |-> <<>>,
                           importedBy |-> <<>> ]))

RECURSIVE InitializeNodes(_, _, _)
\* the loop "Initialize all nodes"
InitializeNodes(p, files, ns) ==
  IF Len(files) = 0 THEN ns
  ELSE InitializeNodes(p, Tail(files),
         MapSet(ns, [ path |-> Head(files).path,
                         type |-> GetFileType(ParserConfig(p), Head(files).path),
                         imports |-> <<>>,
                         importedBy |-> <<>> ]))

\* Array.from(nodes.keys())
NodeKeys(ns) == [i \in 1..Len(ns) |-> ns[i].path]

\* whether the parser object has a matchImportToFile function; both shipped parsers have
HasMatchImportToFile(p) == p \in {"js", "py"}

\* the value of matchingPath for one import
MatchingPath(p, importPath, availableFilePaths) ==
  IF HasMatchImportToFile(p) THEN MatchImportToFile(p, importPath, availableFilePaths)
  ELSE IF ArrIncludes(availableFilePaths, importPath) /\ Len(importPath) > 0 THEN importPath
  ELSE NULL

\* LinkEdge that keeps importedBy free of duplicates while imports and edges keep them
LinkEdgeImportedByOnce(g, source, matchingPath) ==
  LET s == NodeIndex(g.nodes, source)
      withImport == [g.nodes EXCEPT ![s].imports = Append(@, matchingPath)]
      t == NodeIndex(withImport, matchingPath)
      withImportedBy == IF t # 0 /\ ~ArrIncludes(withImport[t].importedBy, source)
                        THEN [withImport EXCEPT ![t].importedBy = Append(@, source)]
                        ELSE withImport
  IN  [nodes |-> withImportedBy, edges |-> Append(g.edges, [source |-> source, target |-> matchingPath])]

\* the body of "if (matchingPath)": the three pushes
LinkEdge(g, source, matchingPath) ==
  LET s == NodeIndex(g.nodes, source)
      withImport == [g.nodes EXCEPT ![s].imports = Append(@, matchingPath)]
      t == NodeIndex(withImport, matchingPath)
      withImportedBy == IF t # 0 THEN [withImport EXCEPT ![t].importedBy = Append(@, source)]
                        ELSE withImport
  IN  [nodes |-> withImportedBy, edges |-> Append(g.edges, [source |-> source, target |-> matchingPath])]

RECURSIVE ResolveImportsKeepUnmatched(_, _, _, _, _)
\* ResolveImports without the test of matchingPath: an import that matches no file is linked under
\* its own candidate path
ResolveImportsKeepUnmatched(p, g, source, imports, availableFilePaths) ==
  IF Len(imports) = 0 THEN g
  ELSE LET matchingPath == MatchingPath(p, Head(imports), availableFilePaths)
       IN  ResolveImportsKeepUnmatched(p,
             IF Truthy(matchingPath) THEN LinkEdge(g, source, matchingPath)
             ELSE LinkEdge(g, source, Head(imports)),
             source, Tail(imports), availableFilePaths)

RECURSIVE ResolveImports(_, _, _, _, _)
\* the loop over the imports of one file
ResolveImports(p, g, source, imports, availableFilePaths) ==
  IF Len(imports) = 0 THEN g
  ELSE LET matchingPath == MatchingPath(p, Head(imports), availableFilePaths)
       IN  ResolveImports(p,
             IF Truthy(matchingPath) THEN LinkEdge(g, source, matchingPath) ELSE g,
             source, Tail(imports), availableFilePaths)

\* one iteration of the loop "Parse imports and build edges"
ResolveFileImports(p, g, file, availableFilePaths) ==
  IF Len(file.content) = 0 THEN g
  ELSE IF NodeIndex(g.nodes, file.path) = 0 THEN g
  ELSE ResolveImports(p, g, file.path, ParseImports(p, file.content, file.path), availableFilePaths)

RECURSIVE ResolveAll(_, _, _, _)
ResolveAll(p, g, files, availableFilePaths) ==
  IF Len(files) = 0 THEN g
  ELSE ResolveAll(p, ResolveFileImports(p, g, Head(files), availableFilePaths), Tail(files), availableFilePaths)

\* the graph the build makes of fileContents with parser p (lines 206 to 252)
BuildGraph(p, files) ==
  LET nodes0 == InitializeNodes(p, files, <<>>)
  IN  ResolveAll(p, [nodes |-> nodes0, edges |-> <<>>], files, NodeKeys(nodes0))

\* isolatedNodes > nodes.size * 0.8
MostlyIsolated(ns) ==
  LET isolated == Cardinality({i \in 1..Len(ns) :
                                 Len(ns[i].imports) = 0 /\ Len(ns[i].importedBy) = 0})
  IN  10 * isolated > 8 * Len(ns)

\* extensionPattern.test(path): the path ends with one of the parser's extensions
HasParserExtension(p, path) ==
  \E k \in 1..Len(ParserConfig(p).extensions) : EndsWith(path, ParserConfig(p).extensions[k])

\* the filter and the slice that make codeFiles
FilterCodeFiles(p, items) ==
  SliceTo(SelectSeq(items, LAMBDA item :
                      /\ item.type = "blob"
                      /\ HasParserExtension(p, item.path)
                      /\ \A k \in 1..Len(ParserConfig(p).excludePatterns) :
                            ~Includes(item.path, ParserConfig(p).excludePatterns[k])),
          MAX_CODE_FILES)

NoMetadata == [language |-> NULL, detectionMethod |-> "none", confidence |-> <<0, 1>>]

NoResponse ==
  [status |-> 0, error |-> "", nodes |-> <<>>, edges |-> <<>>, metadata |-> NoMetadata, warnings |-> NULL]

ErrorResponse(status, error) ==
  [status |-> status, error |-> error, nodes |-> <<>>, edges |-> <<>>, metadata |-> NoMetadata, warnings |-> NULL]

Item(path, type, content, size) == [path |-> path, type |-> type, content |-> content, size |-> size]

File(path, content) == [path |-> path, content |-> content]

\* the request to the provider for kind "tree", "languages" or "content"
Request(kind, path) == [kind |-> kind, path |-> path]

(***************************************************************************)
(* GET /api/dependencies, one action per stretch of the handler between    *)
(* its awaits.  The warnings are named by a tag each.                      *)
(***************************************************************************)

\* lines 22 to 50: the checks of the url parameter
Start ==
  /\ pc = "start"
  /\ response' = IF url = "missing" THEN ErrorResponse(400, "URL is required")
                 ELSE IF url = "invalid" THEN ErrorResponse(400, "Invalid GitHub URL")
                 ELSE response
  /\ pc' = IF url = "ok" THEN "fetchTree" ELSE "done"
  /\ UNCHANGED << envVars, treeVars, warnings, detectVars, fetchVars, graphVars, fetchLog, calls >>

\* lines 52 to 114: the branch loop ends with the tree of the first branch that answers, or with no tree
FetchTree ==
  /\ pc = "fetchTree"
  /\ tree' = IF repo.ok THEN [i \in 1..Len(repo.items) |->
                               [path |-> repo.items[i].path, type |-> repo.items[i].type]]
             ELSE <<>>
  /\ isTruncated' = (repo.ok /\ repo.truncated)
  /\ warnings' = (IF Len(tree') = 0 THEN <<"tree-unavailable">> ELSE <<>>)
                 \o (IF isTruncated' THEN <<"truncated">> ELSE <<>>)
  /\ fetchLog' = Append(fetchLog, Request("tree", <<>>))
  /\ pc' = "detect"
  /\ UNCHANGED << envVars, detectVars, fetchVars, graphVars, response, calls >>

\* ManualOverride that takes the language from lang but still asks the detector for the confidence
ManualOverrideDetectedConfidence ==
  /\ pc = "detect"
  /\ Truthy(manualLanguage)
  /\ languageDetection' = [ language |-> ToLowerCase(manualLanguage),
                            confidence |-> DetectLanguage(langResp, [present |-> TRUE, items |-> tree]).confidence,
                            method |-> "manual", metadata |-> <<>> ]
  /\ methodsRun' = MethodsRun(langResp, [present |-> TRUE, items |-> tree])
  /\ fetchLog' = Append(fetchLog, Request("languages", <<>>))
  /\ pc' = "select"
  /\ UNCHANGED << envVars, treeVars, warnings, fetchVars, graphVars, response, calls >>

\* lines 118 to 123: a truthy lang parameter
ManualOverride ==
  /\ pc = "detect"
  /\ Truthy(manualLanguage)
  /\ languageDetection' = [ language |-> ToLowerCase(manualLanguage), confidence |-> <<1, 1>>,
                            method |-> "manual", metadata |-> <<>> ]
  /\ pc' = "select"
  /\ UNCHANGED << envVars, treeVars, warnings, methodsRun, fetchVars, graphVars, fetchLog, response, calls >>

\* line 125: languageDetector.detectLanguage(owner, cleanRepo, headers, tree)
AutoDetect ==
  /\ pc = "detect"
  /\ ~Truthy(manualLanguage)
  /\ languageDetection' = DetectLanguage(langResp, [present |-> TRUE, items |-> tree])
  /\ methodsRun' = MethodsRun(langResp, [present |-> TRUE, items |-> tree])
  /\ fetchLog' = Append(fetchLog, Request("languages", <<>>))
  /\ pc' = IF languageDetection' = Thrown THEN "done" ELSE "select"
  /\ response' = IF languageDetection' = Thrown
                 THEN ErrorResponse(500, "Failed to build dependency graph")
                 ELSE response
  /\ UNCHANGED << envVars, treeVars, warnings, fetchVars, graphVars, calls >>

\* lines 132 to 174: the parser, the code files and the start of every content fetch
SelectParser ==
  /\ pc = "select"
  /\ parser' = GetParser(parsers, languageDetection.language)
  /\ codeFiles' = FilterCodeFiles(parser', tree)
  /\ warnings' = warnings \o (IF Len(codeFiles') = 0 THEN <<"no-code-files">>
                              ELSE IF Len(codeFiles') = MAX_CODE_FILES THEN <<"file-cap">>
                              ELSE <<>>)
  /\ fileContents' = [i \in 1..Len(codeFiles') |->
                        [path |-> codeFiles'[i].path, content |-> <<>>, settled |-> FALSE]]
  /\ skippedLargeFiles' = 0
  /\ failedFetches' = 0
  /\ fetchLog' = fetchLog \o [i \in 1..Len(codeFiles') |-> Request("content", codeFiles'[i].path)]
  /\ pc' = "fetching"
  /\ UNCHANGED << envVars, treeVars, detectVars, graphVars, response, calls >>

\* the file of the repository with this path
RepoItem(path) == repo.items[CHOOSE i \in 1..Len(repo.items) : repo.items[i].path = path]

\* lines 171 to 192: one content fetch settles; outcome is "ok", "notok" (a non-OK status) or "throw"
SettleFetch ==
  /\ pc = "fetching"
  /\ \E i \in 1..Len(fileContents), outcome \in {"ok", "notok", "throw"} :
       /\ ~fileContents[i].settled
       /\ LET data == RepoItem(fileContents[i].path)
              kept == outcome = "ok" /\ data.size < MAX_FILE_BYTES
          IN  /\ fileContents' = [fileContents EXCEPT ![i] =
                                    [ path |-> @.path,
                                      content |-> IF kept THEN data.content ELSE <<>>,
                                      settled |-> TRUE ]]
              /\ skippedLargeFiles' = IF outcome = "ok" /\ ~kept THEN skippedLargeFiles + 1
                                      ELSE skippedLargeFiles
              /\ failedFetches' = IF outcome # "ok" THEN failedFetches + 1 ELSE failedFetches
  /\ UNCHANGED << pc, envVars, treeVars, warnings, detectVars, parser, codeFiles, graphVars,
                  fetchLog, response, calls >>

\* the array Promise.all resolves to
FetchedFiles == [i \in 1..Len(fileContents) |-> File(fileContents[i].path, fileContents[i].content)]

\* InitNodes without Promise.all: the nodes are made while fetches are still under way
InitNodesEarly ==
  /\ pc = "fetching"
  /\ warnings' = warnings \o (IF skippedLargeFiles > 0 THEN <<"skipped-large">> ELSE <<>>)
                          \o (IF failedFetches > 0 THEN <<"failed-fetches">> ELSE <<>>)
  /\ nodes' = InitializeNodes(parser, FetchedFiles, <<>>)
  /\ edges' = <<>>
  /\ idx' = 1
  /\ pc' = "edges"
  /\ UNCHANGED << envVars, treeVars, detectVars, fetchVars, fetchLog, response, calls >>

\* lines 196 to 221: every fetch has settled; the two warnings and the nodes
InitNodes ==
  /\ pc = "fetching"
  /\ \A i \in 1..Len(fileContents) : fileContents[i].settled
  /\ warnings' = warnings \o (IF skippedLargeFiles > 0 THEN <<"skipped-large">> ELSE <<>>)
                          \o (IF failedFetches > 0 THEN <<"failed-fetches">> ELSE <<>>)
  /\ nodes' = InitializeNodes(parser, FetchedFiles, <<>>)
  /\ edges' = <<>>
  /\ idx' = 1
  /\ pc' = "edges"
  /\ UNCHANGED << envVars, treeVars, detectVars, fetchVars, fetchLog, response, calls >>

\* lines 223 to 252: one iteration of the edge loop
ResolveFile ==
  /\ pc = "edges"
  /\ idx <= Len(fileContents)
  /\ LET g == ResolveFileImports(parser, [nodes |-> nodes, edges |-> edges], FetchedFiles[idx], NodeKeys(nodes))
     IN  /\ nodes' = g.nodes
         /\ edges' = g.edges
  /\ idx' = idx + 1
  /\ UNCHANGED << pc, envVars, treeVars, warnings, detectVars, fetchVars, fetchLog, response, calls >>

\* lines 254 to 280: the statistics and the response
Respond ==
  /\ pc = "edges"
  /\ idx > Len(fileContents)
  /\ warnings' = warnings \o (IF MostlyIsolated(nodes) THEN <<"mostly-isolated">> ELSE <<>>)
  /\ response' = [ status |-> 200, error |-> "", nodes |-> nodes, edges |-> edges,
                   metadata |-> [ language |-> languageDetection.language,
                                  detectionMethod |-> languageDetection.method,
                                  confidence |-> languageDetection.confidence ],
                   warnings |-> IF Len(warnings') > 0 THEN warnings' ELSE NULL ]
  /\ pc' = "done"
  /\ UNCHANGED << envVars, treeVars, detectVars, fetchVars, graphVars, fetchLog, calls >>

(***************************************************************************)
(* Direct calls of the detector and of the parsers' functions              *)
(***************************************************************************)

\* detectLanguage called with the answer langResp and the tree argument detTree
CallDetectLanguage ==
  /\ pc = "detector"
  /\ languageDetection' = DetectLanguage(langResp, detTree)
  /\ methodsRun' = MethodsRun(langResp, detTree)
  /\ fetchLog' = Append(fetchLog, Request("languages", <<>>))
  /\ pc' = IF DetectLanguage(langResp, detTree) = Thrown THEN "threw" ELSE "returned"
  /\ UNCHANGED << envVars, treeVars, warnings, fetchVars, graphVars, response, calls >>

Call(op, p, arg, path, result) == [op |-> op, parser |-> p, arg |-> arg, path |-> path, result |-> result]

\* parser.parseImports(content, currentPath) on the parser object p
CallParseImports(p, content, currentPath) ==
  /\ pc = "parsers"
  /\ calls' = Append(calls, Call("parseImports", p, content, currentPath,
                                 ParseImports(p, content, currentPath)))
  /\ UNCHANGED << pc, envVars, treeVars, warnings, detectVars, fetchVars, graphVars, fetchLog, response >>

\* JavaScriptParser.resolveImportPath(importPath, currentPath)
CallResolveImportPath(importPath, currentPath) ==
  /\ pc = "parsers"
  /\ calls' = Append(calls, Call("resolveImportPath", "js", importPath, currentPath,
                                 JsResolveImportPath(importPath, currentPath)))
  /\ UNCHANGED << pc, envVars, treeVars, warnings, detectVars, fetchVars, graphVars, fetchLog, response >>

\* PythonParser.resolveRelativeImport(relativePath, currentPath)
CallResolveRelativeImport(relativePath, currentPath) ==
  /\ pc = "parsers"
  /\ calls' = Append(calls, Call("resolveRelativeImport", "py", relativePath, currentPath,
                                 PyResolveRelativeImport(relativePath, currentPath)))
  /\ UNCHANGED << pc, envVars, treeVars, warnings, detectVars, fetchVars, graphVars, fetchLog, response >>

\* getLanguageConfig(languageId) of language-configs.ts
CallGetLanguageConfig(languageId) ==
  /\ pc = "lookup"
  /\ calls' = Append(calls, Call("getLanguageConfig", "none", languageId, <<>>,
                                 GetLanguageConfigIndex(languageId)))
  /\ UNCHANGED << pc, envVars, treeVars, warnings, detectVars, fetchVars, graphVars, fetchLog, response >>

\* languageDetector.getConfig(languageId)
CallGetConfig(languageId) ==
  /\ pc = "lookup"
  /\ calls' = Append(calls, Call("getConfig", "none", languageId, <<>>, GetConfig(languageId)))
  /\ UNCHANGED << pc, envVars, treeVars, warnings, detectVars, fetchVars, graphVars, fetchLog, response >>

\* parserRegistry.registerParser(languageId, p)
CallRegisterParser(languageId, p) ==
  /\ pc = "registry"
  /\ parsers' = RegisterParser(parsers, languageId, p)
  /\ calls' = Append(calls, Call("registerParser", p, languageId, <<>>, "void"))
  /\ UNCHANGED << pc, url, manualLanguage, repo, langResp, detTree, treeVars, warnings, detectVars,
                  fetchVars, graphVars, fetchLog, response >>

\* parserRegistry.getParser(languageId)
CallGetParser(languageId) ==
  /\ pc = "registry"
  /\ calls' = Append(calls, Call("getParser", "none", languageId, <<>>, GetParser(parsers, languageId)))
  /\ UNCHANGED << pc, envVars, treeVars, warnings, detectVars, fetchVars, graphVars, fetchLog, response >>

\* parserRegistry.hasParser(languageId)
CallHasParser(languageId) ==
  /\ pc = "registry"
  /\ calls' = Append(calls, Call("hasParser", "none", languageId, <<>>,
                                 IF HasParser(parsers, languageId) THEN "true" ELSE "false"))
  /\ UNCHANGED << pc, envVars, treeVars, warnings, detectVars, fetchVars, graphVars, fetchLog, response >>

\* the paths of the files of the tree
TreePaths == [i \in 1..Len(tree) |-> tree[i].path]

\* JavaScriptParser.matchImportToFile(importPath, availableFiles) with the files of the tree
CallMatchImportToFile(importPath) ==
  /\ pc = "matcher"
  /\ calls' = Append(calls, Call("matchImportToFile", "js", importPath, <<>>,
                                 JsMatchImportToFile(importPath, TreePaths)))
  /\ UNCHANGED << pc, envVars, treeVars, warnings, detectVars, fetchVars, graphVars, fetchLog, response >>

\* the largest number of nested invocations of matchImportToFile followed
MaxFrames == 5

\* the removal of the prefix that does not remove it: importPath itself
JsWithoutPackagesKept(importPath) == importPath

\* withoutPackages: importPath.replace(/^packages\//, "") of a path that starts with packages/
JsWithoutPackages(importPath) == Substring(importPath, 9)

\* withApps: `apps/${importPath}`
JsWithApps(importPath) == <<"a","p","p","s","/">> \o importPath

\* what one invocation of matchImportToFile finds by itself: the exact path or the first variation
JsOwnMatch(importPath, availableFiles) ==
  IF ArrIncludes(availableFiles, importPath) THEN importPath
  ELSE FirstAvailable(JsVariations(importPath), availableFiles)

\* an invocation of matchImportToFile that has not returned yet
Invocation(importPath) == Call("invocation", "js", importPath, <<>>, <<"RUNNING">>)

\* the path of the innermost invocation
InnermostPath == calls[Len(calls)].arg

\* every invocation of the chain returns this value: a caller hands a hit upwards at once, and
\* after a null no caller has another attempt left
ReturnAll(result) == [i \in 1..Len(calls) |-> [calls[i] EXCEPT !.result = result]]

\* lines 183 to 211: the innermost invocation finds the path or a variation and returns it
MatchReturnFound ==
  /\ pc = "matching"
  /\ JsOwnMatch(InnermostPath, TreePaths) # NULL
  /\ calls' = ReturnAll(JsOwnMatch(InnermostPath, TreePaths))
  /\ pc' = "matched"
  /\ UNCHANGED << envVars, treeVars, warnings, detectVars, fetchVars, graphVars, fetchLog, response >>

\* lines 215 to 219: nothing found for a path under packages/; the recursive call without the prefix
MatchRecurseWithoutPackages ==
  /\ pc = "matching"
  /\ Len(calls) < MaxFrames
  /\ JsOwnMatch(InnermostPath, TreePaths) = NULL
  /\ StartsWith(InnermostPath, <<"p","a","c","k","a","g","e","s","/">>)
  /\ calls' = Append(calls, Invocation(JsWithoutPackages(InnermostPath)))
  /\ UNCHANGED << pc, envVars, treeVars, warnings, detectVars, fetchVars, graphVars, fetchLog, response >>

\* lines 222 to 226: nothing found for a path under neither prefix; the recursive call with apps/
MatchRecurseWithApps ==
  /\ pc = "matching"
  /\ Len(calls) < MaxFrames
  /\ JsOwnMatch(InnermostPath, TreePaths) = NULL
  /\ ~StartsWith(InnermostPath, <<"a","p","p","s","/">>) /\ ~StartsWith(InnermostPath, <<"p","a","c","k","a","g","e","s","/">>)
  /\ calls' = Append(calls, Invocation(JsWithApps(InnermostPath)))
  /\ UNCHANGED << pc, envVars, treeVars, warnings, detectVars, fetchVars, graphVars, fetchLog, response >>

\* line 228: nothing found for a path under apps/, which meets neither test; null goes upwards
MatchReturnNull ==
  /\ pc = "matching"
  /\ JsOwnMatch(InnermostPath, TreePaths) = NULL
  /\ StartsWith(InnermostPath, <<"a","p","p","s","/">>)
  /\ calls' = ReturnAll(NULL)
  /\ pc' = "matched"
  /\ UNCHANGED << envVars, treeVars, warnings, detectVars, fetchVars, graphVars, fetchLog, response >>

(***************************************************************************)
(* Bounds and input sets                                                   *)
(***************************************************************************)

\* the largest number of (path, content) pairs given to a graph build
MaxFiles == 3

\* the largest number of entries of a tree given to a direct call of detectLanguage
MaxTree == 2

\* the largest number of direct calls of the parsers' functions in one behaviour
MaxCalls == 3

\* the largest number of lookups of the language registry in one behaviour
MaxLookups == 2

\* the largest number of direct calls of matchImportToFile in one behaviour
MaxMatchCalls == 1

RECURSIVE DistinctSeqs(_, _, _)
\* the sequences of at most n elements of pool no two of which have the same key
DistinctSeqs(pool, key(_), n) ==
  IF n = 0 THEN {<<>>}
  ELSE LET shorter == DistinctSeqs(pool, key, n - 1)
       IN  shorter \cup { Append(q, e) : <<q, e>> \in
                            { <<q, e>> \in shorter \X pool :
                                \A i \in 1..Len(q) : key(q[i]) # key(e) } }

PathOf(e) == e.path

\* ECMAScript files: (path, content) pairs with the parser's extensions and none of its exclude patterns
JsPool ==
  { File(<<"s","/","a",".","t","s">>, << Stmt("named", <<".","/","b">>, <<"x">>) >>),
    File(<<"s","/","a",".","t","s">>, << Stmt("side", <<"l","e","f","t","-","p","a","d">>, <<>>), Stmt("named", <<".","/","b">>, <<"x">>),
                        Stmt("dynamic", <<".","/","b">>, <<>>), Stmt("namespace", <<".","/","a">>, <<"m","e">>) >>),
    File(<<"s","/","b",".","t","s">>, << Stmt("code", <<>>, <<>>) >>),
    File(<<"s","/","b",".","t","s">>, << >>),
    File(<<"s","/","b","/","i","n","d","e","x",".","t","s">>, << Stmt("default", <<".",".","/","a">>, <<"a">>), Stmt("require", <<".",".","/","b">>, <<"x">>) >>),
    File(<<"b",".","t","s","x">>, << Stmt("reexport", <<".","/","s","/","a">>, <<"a">>), Stmt("starexport", <<".","/","s","/","b">>, <<>>),
                       Stmt("named", <<"@","/","s","/","b">>, <<"x">>) >>),
    File(<<"p","a","c","k","a","g","e","s","/","p","/","a",".","t","s">>, << Stmt("named", <<".","/","b">>, <<"x">>) >>),
    File(<<"p","a","c","k","a","g","e","s","/","p","/","b",".","t","s">>, << Stmt("code", <<>>, <<>>) >>),
    File(<<"p","a","c","k","a","g","e","s","/","p","/","c",".","t","s">>, << Stmt("side", <<"l","e","f","t","-","p","a","d">>, <<>>), Stmt("default", <<"q">>, <<"q">>),
                                 Stmt("named", <<"p","/","b">>, <<"x">>) >>),
    File(<<"a","p","p","s","/","q","/","i","n","d","e","x",".","j","s">>, << Stmt("code", <<>>, <<>>) >>),
    File(<<"b",".","t","s","x">>, << Stmt("named", <<".","/","q">>, <<"x">>) >>) }

\* Python files
PyPool ==
  { File(<<"p","/","m","o","d",".","p","y">>, << Stmt("from", <<".">>, <<"n">>) >>),
    File(<<"p","/","m","o","d",".","p","y">>, << Stmt("from", <<".",".","d">>, <<"f">>), Stmt("import", <<"o","s">>, <<>>),
                          Stmt("import", <<"p",".","n">>, <<>>), Stmt("from", <<"p",".","q",".","c">>, <<"g">>) >>),
    File(<<"p","/","n",".","p","y">>, << Stmt("code", <<>>, <<>>) >>),
    File(<<"p","/","_","_","i","n","i","t","_","_",".","p","y">>, << Stmt("from", <<".","n">>, <<"f">>), Stmt("from", <<".","m","o","d">>, <<"g">>) >>),
    File(<<"d",".","p","y">>, << Stmt("importas", <<"p",".","m","o","d">>, <<"m">>), Stmt("from", <<"p">>, <<"n">>) >>),
    File(<<"p","/","q","/","c",".","p","y">>, << Stmt("from", <<".",".","n">>, <<"f">>), Stmt("from", <<".",".",".","d">>, <<"f">>),
                          Stmt("from", <<".">>, <<"n">>) >>),
    File(<<"p","/","q","/","n",".","p","y">>, << >>) }

\* the inputs of a graph build
BuildInputs == DistinctSeqs(JsPool, PathOf, MaxFiles) \cup DistinctSeqs(PyPool, PathOf, MaxFiles)

\* the repository that holds exactly these files, each small enough to be analysed
RepoOfFiles(files) ==
  [ ok |-> TRUE, truncated |-> FALSE,
    items |-> [i \in 1..Len(files) |-> Item(files[i].path, "blob", files[i].content, 100)] ]

TreeOfRepo(r) == [i \in 1..Len(r.items) |-> [path |-> r.items[i].path, type |-> r.items[i].type]]

NoTree == [present |-> FALSE, items |-> <<>>]

Unavailable == [kind |-> "notok", languages |-> <<>>]

\* the answers of the languages endpoint
LangResps ==
  { Unavailable,
    [kind |-> "throw", languages |-> <<>>],
    [kind |-> "badjson", languages |-> <<>>],
    [kind |-> "ok", languages |-> <<>>],
    [kind |-> "ok", languages |-> << << <<"P","y","t","h","o","n">>, 0 >> >>],
    [kind |-> "ok", languages |-> << << <<"P","y","t","h","o","n">>, 10 >>, << <<"T","y","p","e","S","c","r","i","p","t">>, 30 >> >>],
    [kind |-> "ok", languages |-> << << <<"G","o">>, 5 >>, << <<"P","y","t","h","o","n">>, 5 >> >>],
    [kind |-> "ok", languages |-> << << <<"H","T","M","L">>, 7 >>, << <<"J","a","v","a","S","c","r","i","p","t">>, 3 >> >>],
    [kind |-> "ok", languages |-> << << <<"P","y","t","h","o","n">>, 2 >>, << <<"C","#">>, 6 >> >>] }

\* entries of a tree given to detectLanguage
TreePool ==
  { [path |-> <<"p","a","c","k","a","g","e",".","j","s","o","n">>, type |-> "blob"],
    [path |-> <<"g","o",".","m","o","d">>, type |-> "blob"],
    [path |-> <<"s","u","b","/","g","o",".","m","o","d">>, type |-> "blob"],
    [path |-> <<"c","a","r","g","o",".","t","o","m","l">>, type |-> "blob"],
    [path |-> <<"s","e","t","u","p",".","p","y">>, type |-> "tree"],
    [path |-> <<"a",".","p","y">>, type |-> "blob"],
    [path |-> <<"b",".","p","y","i">>, type |-> "blob"],
    [path |-> <<"c",".","t","s">>, type |-> "blob"],
    [path |-> <<"d",".","g","o">>, type |-> "blob"],
    [path |-> <<"R","E","A","D","M","E">>, type |-> "blob"] }

DetectTrees ==
  {NoTree} \cup { [present |-> TRUE, items |-> t] : t \in DistinctSeqs(TreePool, PathOf, MaxTree) }

\* the lang parameter: absent, empty, or a language name
ManualLanguages == { NULL, <<>>, <<"P","y","t","h","o","n">>, <<"g","o">> }

\* the repositories of whole requests
Repos ==
  { [ ok |-> TRUE, truncated |-> FALSE,
      items |-> << Item(<<"p","a","c","k","a","g","e",".","j","s","o","n">>, "blob", <<>>, 300),
                   Item(<<"s">>, "tree", <<>>, 0),
                   Item(<<"s","/","a",".","t","s">>, "blob", << Stmt("named", <<".","/","b">>, <<"x">>), Stmt("side", <<"l","e","f","t","-","p","a","d">>, <<>>) >>, 100),
                   Item(<<"s","/","b",".","t","s">>, "blob", << Stmt("code", <<>>, <<>>) >>, 100),
                   Item(<<"n","o","d","e","_","m","o","d","u","l","e","s","/","x",".","j","s">>, "blob", << Stmt("code", <<>>, <<>>) >>, 100) >> ],
    [ ok |-> TRUE, truncated |-> FALSE,
      items |-> << Item(<<"g","o",".","m","o","d">>, "blob", <<>>, 50),
                   Item(<<"p","/","m","o","d",".","p","y">>, "blob", << Stmt("from", <<".">>, <<"n">>) >>, 100),
                   Item(<<"p","/","n",".","p","y">>, "blob", << Stmt("code", <<>>, <<>>) >>, 60000),
                   Item(<<"p","/","_","_","i","n","i","t","_","_",".","p","y">>, "blob", << Stmt("from", <<".","n">>, <<"f">>) >>, 100) >> ],
    [ ok |-> TRUE, truncated |-> TRUE,
      items |-> << Item(<<"s","/","a",".","t","s">>, "blob", << Stmt("side", <<"l","e","f","t","-","p","a","d">>, <<>>) >>, 100),
                   Item(<<"R","E","A","D","M","E",".","m","d">>, "blob", <<>>, 10) >> ],
    [ ok |-> TRUE, truncated |-> FALSE, items |-> << >> ],
    [ ok |-> FALSE, truncated |-> FALSE, items |-> << >> ] }

(***************************************************************************)
(* Specifications                                                          *)
(***************************************************************************)

\* no request has run
BlankRequest ==
  /\ tree = <<>> /\ isTruncated = FALSE /\ warnings = <<>>
  /\ languageDetection = NoDetection /\ methodsRun = <<>>
  /\ parser = "none" /\ codeFiles = <<>> /\ fileContents = <<>>
  /\ skippedLargeFiles = 0 /\ failedFetches = 0
  /\ nodes = <<>> /\ edges = <<>> /\ idx = 0
  /\ fetchLog = <<>> /\ response = NoResponse

\* a request arrives
Init ==
  /\ pc = "start"
  /\ url \in {"missing", "invalid", "ok"}
  /\ manualLanguage \in ManualLanguages
  /\ repo \in Repos
  /\ langResp \in LangResps
  /\ url # "ok" => manualLanguage = NULL /\ repo.ok /\ repo.items = <<>> /\ langResp = Unavailable
  /\ detTree = NoTree
  /\ parsers = DefaultParsers
  /\ BlankRequest
  /\ calls = <<>>

Next ==
  \/ Start
  \/ FetchTree
  \/ ManualOverride
  \/ AutoDetect
  \/ SelectParser
  \/ SettleFetch
  \/ InitNodes
  \/ ResolveFile
  \/ Respond

Spec == Init /\ [][Next]_vars

\* a request without lang for a repository that holds exactly the files of a build input, the
\* languages endpoint unavailable, at the moment the last content fetch has settled
InitBuild ==
  \E files \in BuildInputs :
    /\ pc = "fetching"
    /\ url = "ok"
    /\ manualLanguage = NULL
    /\ repo = RepoOfFiles(files)
    /\ langResp = Unavailable
    /\ detTree = NoTree
    /\ parsers = DefaultParsers
    /\ tree = TreeOfRepo(repo)
    /\ isTruncated = FALSE
    /\ languageDetection = DetectLanguage(langResp, [present |-> TRUE, items |-> tree])
    /\ methodsRun = MethodsRun(langResp, [present |-> TRUE, items |-> tree])
    /\ parser = GetParser(parsers, languageDetection.language)
    /\ codeFiles = FilterCodeFiles(parser, tree)
    /\ warnings = IF Len(files) = 0 THEN <<"tree-unavailable", "no-code-files">> ELSE <<>>
    /\ fileContents = [i \in 1..Len(files) |->
                         [path |-> files[i].path, content |-> files[i].content, settled |-> TRUE]]
    /\ skippedLargeFiles = 0
    /\ failedFetches = 0
    /\ nodes = <<>> /\ edges = <<>> /\ idx = 0
    /\ fetchLog = << Request("tree", <<>>), Request("languages", <<>>) >>
                  \o [i \in 1..Len(files) |-> Request("content", files[i].path)]
    /\ response = NoResponse
    /\ calls = <<>>

NextBuild ==
  \/ InitNodes
  \/ ResolveFile
  \/ Respond

SpecBuild == InitBuild /\ [][NextBuild]_vars

\* a direct call of detectLanguage
InitDetect ==
  /\ pc = "detector"
  /\ url = "ok"
  /\ manualLanguage = NULL
  /\ repo = [ok |-> FALSE, truncated |-> FALSE, items |-> <<>>]
  /\ langResp \in LangResps
  /\ detTree \in DetectTrees
  /\ parsers = DefaultParsers
  /\ BlankRequest
  /\ calls = <<>>

NextDetect == CallDetectLanguage

SpecDetect == InitDetect /\ [][NextDetect]_vars

\* the texts given to direct calls of parseImports
ParseCallInputs ==
  { <<"js", File(<<"s","/","a",".","t","s">>, << Stmt("named", <<".","/","b">>, <<"x">>), Stmt("dynamic", <<".",".","/","c">>, <<>>) >>)>>,
    <<"js", File(<<"p","a","c","k","a","g","e","s","/","p","/","c",".","t","s">>, << Stmt("side", <<"l","e","f","t","-","p","a","d">>, <<>>), Stmt("code", <<>>, <<>>) >>)>>,
    <<"py", File(<<"p","/","m","o","d",".","p","y">>, << Stmt("from", <<".">>, <<"n">>), Stmt("import", <<"a",".","b">>, <<>>) >>)>>,
    <<"py", File(<<"p","/","q","/","c",".","p","y">>, << Stmt("from", <<".",".","n">>, <<"f">>), Stmt("import", <<"o","s">>, <<>>) >>)>>,
    <<"py", File(<<"p","/","q","/","c",".","p","y">>, << Stmt("from", <<".",".",".",".","n">>, <<"f">>) >>)>>,
    <<"js", File(<<"s","/","i",".","t","s">>, << Stmt("starexport", <<".","/","b">>, <<>>), Stmt("reexport", <<".","/","c">>, <<"x">>),
                                Stmt("default", <<".","/","d">>, <<"d">>), Stmt("namespace", <<".","/","e">>, <<"e">>) >>)>> }

\* the directories X/Y of the current files of direct calls of the resolvers
ResolveDirs == { <<"x","/","y">>, <<"x","/","a","p","p","s">>, <<"x","/","w","/","y">>, <<"p","a","c","k","a","g","e","s","/","y">> }

JsResolveInputs == { <<i, dir \o <<"/","c",".","t","s">>>> : i \in { <<".",".","/","d">>, <<".","/","d">> }, dir \in ResolveDirs }

PyResolveInputs ==
  { <<i, dir \o <<"/","c",".","p","y">>>> : i \in { <<".",".","d">>, <<".","d">>, <<".",".",".",".","d">> }, dir \in ResolveDirs }
  \cup { << <<".","d">>, <<"c",".","p","y">> >>, << <<".">>, <<"c",".","p","y">> >>, << <<".",".","d",".","e">>, <<"x","/","c",".","p","y">> >> }

\* the parsers are called directly
InitParser ==
  /\ pc = "parsers"
  /\ url = "ok"
  /\ manualLanguage = NULL
  /\ repo = [ok |-> FALSE, truncated |-> FALSE, items |-> <<>>]
  /\ langResp = Unavailable
  /\ detTree = NoTree
  /\ parsers = DefaultParsers
  /\ BlankRequest
  /\ calls = <<>>

NextParser ==
  \/ \E in \in ParseCallInputs : Len(calls) < MaxCalls /\ CallParseImports(in[1], in[2].content, in[2].path)
  \/ \E in \in JsResolveInputs : Len(calls) < MaxCalls /\ CallResolveImportPath(in[1], in[2])
  \/ \E in \in PyResolveInputs : Len(calls) < MaxCalls /\ CallResolveRelativeImport(in[1], in[2])

SpecParser == InitParser /\ [][NextParser]_vars

\* the names given to the lookups of the language registry
LookupNames ==
  { <<"p","y","t","h","o","n">>, <<"P","y","t","h","o","n">>, <<"p","y">>, <<"P","Y">>, <<"g","o","l","a","n","g">>, <<"G","o","l","a","n","g">>, <<"c","+","+">>, <<"C","+","+">>, <<"k","o","t","l","i","n">>, <<>> }

\* the language registry is looked up directly
InitLookup ==
  /\ pc = "lookup"
  /\ url = "ok"
  /\ manualLanguage = NULL
  /\ repo = [ok |-> FALSE, truncated |-> FALSE, items |-> <<>>]
  /\ langResp = Unavailable
  /\ detTree = NoTree
  /\ parsers = DefaultParsers
  /\ BlankRequest
  /\ calls = <<>>

NextLookup ==
  \/ \E n \in LookupNames : Len(calls) < MaxLookups /\ CallGetLanguageConfig(n)
  \/ \E n \in LookupNames : Len(calls) < MaxLookups /\ CallGetConfig(n)

SpecLookup == InitLookup /\ [][NextLookup]_vars

\* the identifiers given to registerParser, and to getParser and hasParser
RegisterIds == { <<"j","a","v","a","s","c","r","i","p","t">>, <<"G","o">>, <<"P","Y">> }

ParserIds == { <<"G","o">>, <<"g","o">>, <<"P","Y">>, <<"r","u","s","t">>, <<"T","y","p","e","S","c","r","i","p","t">> }

\* the parser registry is used directly
InitRegistry ==
  /\ pc = "registry"
  /\ url = "ok"
  /\ manualLanguage = NULL
  /\ repo = [ok |-> FALSE, truncated |-> FALSE, items |-> <<>>]
  /\ langResp = Unavailable
  /\ detTree = NoTree
  /\ parsers = DefaultParsers
  /\ BlankRequest
  /\ calls = <<>>

NextRegistry ==
  \/ \E id \in RegisterIds, p \in {"js", "py"} : Len(calls) < MaxCalls /\ CallRegisterParser(id, p)
  \/ \E id \in ParserIds : Len(calls) < MaxCalls /\ CallGetParser(id)
  \/ \E id \in ParserIds : Len(calls) < MaxCalls /\ CallHasParser(id)

SpecRegistry == InitRegistry /\ [][NextRegistry]_vars

\* the files that are there when matchImportToFile is called directly
MatchPool ==
  { [path |-> p, type |-> "blob"] :
      p \in { <<"s","/","p",".","t","s">>, <<"s","/","p","/","i","n","d","e","x",".","t","s">>, <<"s","/","p",".","j","s">>, <<"s","/","p",".","j","s",".","t","s">>,
              <<"a","p","p","s","/","s","/","p",".","t","s","x">>, <<"a","p","p","s","/","s","/","p","/","i","n","d","e","x",".","j","s">>, <<"p","a","c","k","a","g","e","s","/","s","/","p",".","m","j","s">> } }

\* the import paths given to matchImportToFile
MatchImportPaths == { <<"s","/","p">>, <<"s","/","p",".","j","s">>, <<"p","a","c","k","a","g","e","s","/","s","/","p">>, <<"a","p","p","s","/","s","/","p">>, <<"p","a","c","k","a","g","e","s","/","a","p","p","s","/","s","/","p">> }

\* matchImportToFile is called directly, the files being those of a tree
InitMatch ==
  /\ pc = "matcher"
  /\ url = "ok"
  /\ manualLanguage = NULL
  /\ repo = [ok |-> FALSE, truncated |-> FALSE, items |-> <<>>]
  /\ langResp = Unavailable
  /\ detTree = NoTree
  /\ parsers = DefaultParsers
  /\ tree \in DistinctSeqs(MatchPool, PathOf, MaxTree)
  /\ isTruncated = FALSE /\ warnings = <<>>
  /\ languageDetection = NoDetection /\ methodsRun = <<>>
  /\ parser = "none" /\ codeFiles = <<>> /\ fileContents = <<>>
  /\ skippedLargeFiles = 0 /\ failedFetches = 0
  /\ nodes = <<>> /\ edges = <<>> /\ idx = 0
  /\ fetchLog = <<>> /\ response = NoResponse
  /\ calls = <<>>

NextMatch == \E i \in MatchImportPaths : Len(calls) < MaxMatchCalls /\ CallMatchImportToFile(i)

SpecMatch == InitMatch /\ [][NextMatch]_vars

\* the import paths of the invocations followed step by step
RecursionPaths ==
  { <<"s","/","p">>, <<"p","a","c","k","a","g","e","s","/","s","/","p">>, <<"a","p","p","s","/","s","/","p">>, <<"p","a","c","k","a","g","e","s","/","p","a","c","k","a","g","e","s","/","s","/","p">>, <<"p","a","c","k","a","g","e","s","/","a","p","p","s","/","s","/","p">> }

\* matchImportToFile has just been called, the files being those of a tree
InitRecursion ==
  /\ pc = "matching"
  /\ url = "ok"
  /\ manualLanguage = NULL
  /\ repo = [ok |-> FALSE, truncated |-> FALSE, items |-> <<>>]
  /\ langResp = Unavailable
  /\ detTree = NoTree
  /\ parsers = DefaultParsers
  /\ tree \in DistinctSeqs(MatchPool, PathOf, MaxTree)
  /\ isTruncated = FALSE /\ warnings = <<>>
  /\ languageDetection = NoDetection /\ methodsRun = <<>>
  /\ parser = "none" /\ codeFiles = <<>> /\ fileContents = <<>>
  /\ skippedLargeFiles = 0 /\ failedFetches = 0
  /\ nodes = <<>> /\ edges = <<>> /\ idx = 0
  /\ fetchLog = <<>> /\ response = NoResponse
  /\ \E importPath \in RecursionPaths : calls = << Invocation(importPath) >>

NextRecursion ==
  \/ MatchReturnFound
  \/ MatchRecurseWithoutPackages
  \/ MatchRecurseWithApps
  \/ MatchReturnNull

\* the call runs on: JavaScript runs a synchronous call to its end
SpecRecursion == InitRecursion /\ [][NextRecursion]_vars /\ WF_vars(NextRecursion)

(***************************************************************************)
(* Properties                                                              *)
(***************************************************************************)

\* the build has answered with a graph
Built == pc = "done" /\ response.status = 200

NodePaths(ns) == {ns[i].path : i \in 1..Len(ns)}

Occurrences(q, x) == Cardinality({i \in 1..Len(q) : q[i] = x})

SeqToSet(q) == {q[i] : i \in 1..Len(q)}

\* C1: in the graph a build answers with, the source and the target of every edge are paths of nodes
\* of that graph.
NoDanglingEdges ==
  Built =>
    \A i \in 1..Len(response.edges) :
      /\ response.edges[i].source \in NodePaths(response.nodes)
      /\ response.edges[i].target \in NodePaths(response.nodes)

\* a build has answered with at least two edges
SeveralEdgesBuilt == Built /\ Len(response.edges) >= 2

\* C2: in the graph a build answers with, for all nodes A and B the occurrences of B in A.imports, of A
\* in B.importedBy and of the edge A -> B are equally many, and the two lists name nodes only.
EdgeRepresentationsAgree ==
  Built =>
    /\ \A a \in 1..Len(response.nodes), b \in 1..Len(response.nodes) :
         LET A == response.nodes[a]
             B == response.nodes[b]
         IN  /\ Occurrences(A.imports, B.path) = Occurrences(B.importedBy, A.path)
             /\ Occurrences(A.imports, B.path)
                  = Occurrences(response.edges, [source |-> A.path, target |-> B.path])
    /\ \A a \in 1..Len(response.nodes) :
         /\ SeqToSet(response.nodes[a].imports) \subseteq NodePaths(response.nodes)
         /\ SeqToSet(response.nodes[a].importedBy) \subseteq NodePaths(response.nodes)

\* a build has answered with a file that imports one target twice
RepeatedImportBuilt ==
  /\ Built
  /\ \E a \in 1..Len(response.nodes), b \in 1..Len(response.nodes) :
       /\ a # b
       /\ Occurrences(response.nodes[a].imports, response.nodes[b].path) >= 2

\* the sequence q with its elements i and j exchanged
Swap(q, i, j) == [k \in 1..Len(q) |-> IF k = i THEN q[j] ELSE IF k = j THEN q[i] ELSE q[k]]

\* a graph as sets: the nodes with their lists as sets, and the edges
NodeSetOf(ns) ==
  { [ path |-> ns[i].path, type |-> ns[i].type,
      imports |-> SeqToSet(ns[i].imports), importedBy |-> SeqToSet(ns[i].importedBy) ] :
    i \in 1..Len(ns) }

\* C3: the graph a build answers with has the same set of nodes (path, category, set of imports, set
\* of importedBy) and the same set of edges as the graph built from the same files with any two of them
\* exchanged; every order of the files is an input, so the same holds of every reordering.
OrderIndependent ==
  Built =>
    \A i \in 1..Len(fileContents), j \in 1..Len(fileContents) :
      i < j =>
        LET g == BuildGraph(parser, Swap(FetchedFiles, i, j))
        IN  /\ NodeSetOf(g.nodes) = NodeSetOf(response.nodes)
            /\ SeqToSet(g.edges) = SeqToSet(response.edges)

\* a build has answered where an import had two files to choose from: s/b.ts and s/b/index.ts
AmbiguousTargetBuilt ==
  /\ Built
  /\ { <<"s","/","b",".","t","s">>, <<"s","/","b","/","i","n","d","e","x",".","t","s">> } \subseteq NodePaths(response.nodes)
  /\ [source |-> <<"s","/","a",".","t","s">>, target |-> <<"s","/","b",".","t","s">>] \in SeqToSet(response.edges)

\* the provider's statistics are available: the table was obtained and its byte counts are not all zero
StatsAvailable(resp) == resp.kind = "ok" /\ \E k \in 1..Len(resp.languages) : resp.languages[k][2] > 0

\* the ids of the profiles one of whose manifest files is a file of the tree, by its whole lower-cased path
ManifestLanguages(items) ==
  { LANGUAGE_CONFIGS[c].id : c \in { c \in 1..Len(LANGUAGE_CONFIGS) :
      \E m \in 1..Len(LANGUAGE_CONFIGS[c].manifestFiles), i \in 1..Len(items) :
        /\ items[i].type = "blob"
        /\ ToLowerCase(items[i].path) = ToLowerCase(LANGUAGE_CONFIGS[c].manifestFiles[m]) } }

\* C4: a call of detectLanguage with available statistics returns the language of the largest byte
\* count with the method github-api, whatever manifests the tree holds; with unavailable statistics
\* and a manifest in the tree it returns a manifest's language with the method manifest, whatever the
\* extensions say.
DetectionPriority ==
  pc = "returned" =>
    /\ StatsAvailable(langResp) =>
         /\ languageDetection.method = "github-api"
         /\ \E k \in 1..Len(langResp.languages) :
              /\ \A j \in 1..Len(langResp.languages) : langResp.languages[j][2] <= langResp.languages[k][2]
              /\ languageDetection.language = MapGitHubLanguageToId(langResp.languages[k][1])
    /\ (~StatsAvailable(langResp) /\ detTree.present /\ ManifestLanguages(detTree.items) # {}) =>
         /\ languageDetection.method = "manifest"
         /\ languageDetection.language \in ManifestLanguages(detTree.items)

\* detectLanguage has returned the statistics' language although the tree's manifest names another
StatsBeatManifest ==
  /\ pc = "returned"
  /\ StatsAvailable(langResp)
  /\ detTree.present
  /\ ManifestLanguages(detTree.items) = { <<"g","o">> }
  /\ languageDetection.language = <<"j","a","v","a","s","c","r","i","p","t">>
  /\ languageDetection.method = "github-api"

\* C5: a request with a non-empty lang parameter answers with that language (in lower case), the
\* confidence 1 and the method manual, and has run no detection method and sent no request to the
\* languages endpoint.
ManualOverrideWins ==
  (Built /\ Truthy(manualLanguage)) =>
    /\ response.metadata.language = ToLowerCase(manualLanguage)
    /\ response.metadata.confidence = <<1, 1>>
    /\ response.metadata.detectionMethod = "manual"
    /\ methodsRun = <<>>
    /\ \A i \in 1..Len(fetchLog) : fetchLog[i].kind # "languages"

\* a request with lang=Python has answered where the detector would have named another language
OverrideAgainstDetection ==
  /\ Built
  /\ manualLanguage = <<"P","y","t","h","o","n">>
  /\ StatsAvailable(langResp)
  /\ DetectLanguage(langResp, [present |-> TRUE, items |-> tree]).language = <<"j","a","v","a","s","c","r","i","p","t">>
  /\ response.metadata.language = <<"p","y","t","h","o","n">>

\* the directory of a path: all but its last segment
DirOf(path) == Join(SliceInit(Split(path, "/")), "/")

\* the directory above the directory of a path
ParentDirOf(path) == Join(SliceInit(SliceInit(Split(path, "/"))), "/")

\* a name with neither slash nor dot
PlainName(d) == Len(d) > 0 /\ \A i \in 1..Len(d) : d[i] \notin {"/", "."}

\* C6: for a current file in a directory X/Y, resolveImportPath of "../d" returns X/d and
\* resolveRelativeImport of "..d" returns X/d.py.
OneLevelUpSibling ==
  \A i \in 1..Len(calls) :
    LET c == calls[i]
    IN  /\ (c.op = "resolveImportPath" /\ Len(Split(c.path, "/")) >= 3
            /\ StartsWith(c.arg, <<".",".","/">>) /\ PlainName(Substring(c.arg, 3)))
           => c.result = ParentDirOf(c.path) \o <<"/">> \o Substring(c.arg, 3)
        /\ (c.op = "resolveRelativeImport" /\ Len(Split(c.path, "/")) >= 3
            /\ StartsWith(c.arg, <<".",".">>) /\ PlainName(Substring(c.arg, 2)))
           => c.result = ParentDirOf(c.path) \o <<"/">> \o Substring(c.arg, 2) \o <<".","p","y">>

\* both resolvers have been called one level up from x/w/y
OneLevelUpCalled ==
  /\ \E i \in 1..Len(calls) :
       /\ calls[i].op = "resolveImportPath"
       /\ calls[i].arg = <<".",".","/","d">> /\ calls[i].path = <<"x","/","w","/","y","/","c",".","t","s">> /\ calls[i].result = <<"x","/","w","/","d">>
  /\ \E i \in 1..Len(calls) :
       /\ calls[i].op = "resolveRelativeImport"
       /\ calls[i].arg = <<".",".","d">> /\ calls[i].path = <<"x","/","w","/","y","/","c",".","p","y">> /\ calls[i].result = <<"x","/","w","/","d",".","p","y">>

\* the calls i and j are calls of parseImports on the same parser with the same text and path
SameParseCall(i, j) ==
  /\ calls[i].op = "parseImports" /\ calls[j].op = "parseImports"
  /\ calls[i].parser = calls[j].parser
  /\ calls[i].path = calls[j].path
  /\ calls[i].arg = calls[j].arg

NodeOf(path) == response.nodes[NodeIndex(response.nodes, path)]

\* the files a and b are D/a.ts with one named import from "./b" and D/b.ts with no import
SiblingScenario(a, b) ==
  /\ Len(DirOf(a.path)) > 0
  /\ a.path = DirOf(a.path) \o <<"/","a",".","t","s">>
  /\ b.path = DirOf(a.path) \o <<"/","b",".","t","s">>
  /\ Len(a.content) = 1 /\ a.content[1].shape = "named" /\ a.content[1].spec = <<".","/","b">>
  /\ \A k \in 1..Len(b.content) : b.content[k].shape = "code"

\* C8: the ECMAScript build of exactly D/a.ts, with one named import from "./b", and D/b.ts, with no
\* import, answers with the two nodes, the one edge D/a.ts -> D/b.ts, D/a.ts.imports = [D/b.ts] and
\* D/b.ts.importedBy = [D/a.ts].
SiblingImportGraph ==
  (Built /\ parser = "js" /\ Len(fileContents) = 2) =>
    \A i \in 1..2, j \in 1..2 :
      SiblingScenario(FetchedFiles[i], FetchedFiles[j]) =>
        LET a == FetchedFiles[i].path
            b == FetchedFiles[j].path
        IN  /\ Len(response.nodes) = 2
            /\ NodePaths(response.nodes) = {a, b}
            /\ response.edges = << [source |-> a, target |-> b] >>
            /\ NodeOf(a).imports = <<b>> /\ NodeOf(a).importedBy = <<>>
            /\ NodeOf(b).importedBy = <<a>> /\ NodeOf(b).imports = <<>>

\* the build of the two files of the scenario has answered
SiblingScenarioBuilt ==
  /\ Built /\ parser = "js" /\ Len(fileContents) = 2
  /\ \E i \in 1..2, j \in 1..2 : SiblingScenario(FetchedFiles[i], FetchedFiles[j])
  /\ Len(response.edges) = 1

\* the file f holds "from . import NAME" and lies in a directory
BareRelativeImport(f, k) ==
  /\ Len(DirOf(f.path)) > 0
  /\ f.content[k].shape = "from" /\ f.content[k].spec = <<".">>
  /\ f.content[k].name # <<"_","_","i","n","i","t","_","_">>

\* C9 as claimed: the Python build of a file P/mod.py holding "from . import NAME" and of P/NAME.py
\* has the edge P/mod.py -> P/NAME.py.
SiblingModuleEdge ==
  (Built /\ parser = "py") =>
    \A i \in 1..Len(fileContents) : \A k \in 1..Len(FetchedFiles[i].content) :
      LET f == FetchedFiles[i]
          sibling == DirOf(f.path) \o <<"/">> \o f.content[k].name \o <<".","p","y">>
      IN  (BareRelativeImport(f, k) /\ sibling \in NodePaths(response.nodes))
          => [source |-> f.path, target |-> sibling] \in SeqToSet(response.edges)

\* C9 as the code has it: "from . import NAME" in P/mod.py resolves to the package-init candidate
\* P/__init__.py.  The build has the edge P/mod.py -> P/__init__.py whenever that file is in the file
\* set, and a file whose only statement it is has no other edge, so none to P/NAME.py.
PackageInitEdge ==
  (Built /\ parser = "py") =>
    \A i \in 1..Len(fileContents) : \A k \in 1..Len(FetchedFiles[i].content) :
      LET f == FetchedFiles[i]
          init == DirOf(f.path) \o <<"/","_","_","i","n","i","t","_","_",".","p","y">>
          sibling == DirOf(f.path) \o <<"/">> \o f.content[k].name \o <<".","p","y">>
      IN  BareRelativeImport(f, k) =>
            /\ init \in NodePaths(response.nodes)
                 => [source |-> f.path, target |-> init] \in SeqToSet(response.edges)
            /\ Len(f.content) = 1
                 => /\ [source |-> f.path, target |-> sibling] \notin SeqToSet(response.edges)
                    /\ \A e \in 1..Len(response.edges) :
                         response.edges[e].source = f.path => response.edges[e].target = init

\* p/mod.py with the one statement "from . import n" was built with p/n.py and p/__init__.py
BareRelativeImportBuilt ==
  /\ Built /\ parser = "py"
  /\ \E i \in 1..Len(fileContents) :
       /\ FetchedFiles[i].path = <<"p","/","m","o","d",".","p","y">>
       /\ Len(FetchedFiles[i].content) = 1
       /\ BareRelativeImport(FetchedFiles[i], 1)
       /\ FetchedFiles[i].content[1].name = <<"n">>
  /\ { <<"p","/","n",".","p","y">>, <<"p","/","_","_","i","n","i","t","_","_",".","p","y">> } \subseteq NodePaths(response.nodes)
  /\ [source |-> <<"p","/","m","o","d",".","p","y">>, target |-> <<"p","/","_","_","i","n","i","t","_","_",".","p","y">>] \in SeqToSet(response.edges)

\* the sequence q without its element k
RemoveAt(q, k) == SubSeq(q, 1, k - 1) \o SubSeq(q, k + 1, Len(q))

\* the statement k of the file f is an import none of whose candidates matches a file of the build
UnmatchedImport(f, k) ==
  /\ f.content[k].shape # "code"
  /\ \A c \in SeqToSet(ParseImports(parser, << f.content[k] >>, f.path)) :
       MatchingPath(parser, c, NodeKeys(response.nodes)) = NULL

\* C10: a build ends with a graph and no error, and an import none of whose candidates matches a file
\* leaves no trace: the graph answered is, node for node and edge for edge, the graph of the same
\* files without that statement.
UnmatchedImportLeavesNoTrace ==
  /\ pc = "done" => response.status = 200
  /\ Built =>
       \A i \in 1..Len(fileContents) : \A k \in 1..Len(FetchedFiles[i].content) :
         UnmatchedImport(FetchedFiles[i], k) =>
           LET without == [FetchedFiles EXCEPT ![i].content = RemoveAt(@, k)]
               g == BuildGraph(parser, without)
           IN  /\ g.nodes = response.nodes
               /\ g.edges = response.edges

\* a file in packages/ was built whose import of left-pad gave a candidate that matched no file,
\* while another import of the same file gave an edge
UnmatchedBesideMatchedBuilt ==
  /\ Built
  /\ \E i \in 1..Len(fileContents) : \E k \in 1..Len(FetchedFiles[i].content) :
       /\ FetchedFiles[i].content[k].spec = <<"l","e","f","t","-","p","a","d">>
       /\ StartsWith(FetchedFiles[i].path, <<"p","a","c","k","a","g","e","s","/">>)
       /\ ParseImports(parser, << FetchedFiles[i].content[k] >>, FetchedFiles[i].path) = << <<"p","a","c","k","a","g","e","s","/","l","e","f","t","-","p","a","d">> >>
       /\ UnmatchedImport(FetchedFiles[i], k)
       /\ \E e \in 1..Len(response.edges) : response.edges[e].source = FetchedFiles[i].path

\* the place in the registry of the first profile one of whose manifest files is a file of the tree
FirstManifestProfile(items) ==
  CHOOSE c \in 1..Len(LANGUAGE_CONFIGS) :
    /\ LANGUAGE_CONFIGS[c].id \in ManifestLanguages(items)
    /\ \A b \in 1..(c - 1) : LANGUAGE_CONFIGS[b].id \notin ManifestLanguages(items)

\* C11: a call of detectLanguage without available statistics, on a tree that holds manifest files of
\* one or more profiles, returns the method manifest and the confidence 0.8 whatever the number of
\* manifests, and the language of the first such profile in registry order; a tree whose only
\* manifest is go.mod gives go.
ManifestFixedConfidence ==
  (pc = "returned" /\ ~StatsAvailable(langResp) /\ detTree.present /\ ManifestLanguages(detTree.items) # {}) =>
    /\ languageDetection.method = "manifest"
    /\ languageDetection.confidence = <<8, 10>>
    /\ languageDetection.language = LANGUAGE_CONFIGS[FirstManifestProfile(detTree.items)].id
    /\ ManifestLanguages(detTree.items) = { <<"g","o">> } => languageDetection.language = <<"g","o">>

\* detectLanguage has returned go for a tree that lists a manifest of rust before the manifest of go
TwoManifestsDetected ==
  /\ pc = "returned"
  /\ ~StatsAvailable(langResp)
  /\ detTree.present
  /\ Len(detTree.items) = 2
  /\ detTree.items[1].path = <<"c","a","r","g","o",".","t","o","m","l">>
  /\ detTree.items[2].path = <<"g","o",".","m","o","d">>
  /\ languageDetection.language = <<"g","o">>
  /\ Len(languageDetection.metadata) = 2

\* C12: every call of detectLanguage, whatever the provider's answer and whatever the tree argument,
\* ends by returning one detection result (a language, a confidence and one of the four method
\* tags); none ends with an exception.
DetectLanguageNeverFails ==
  /\ pc # "threw"
  /\ pc = "returned" =>
       /\ languageDetection.language # NULL
       /\ languageDetection.method \in {"github-api", "manifest", "extension", "manual"}
       /\ languageDetection.confidence[2] > 0

\* detectLanguage has returned although the fetch of the statistics threw and no tree was given
ReturnedAfterNetworkError ==
  /\ pc = "returned"
  /\ langResp.kind = "throw"
  /\ ~detTree.present
  /\ languageDetection = DefaultDetection

\* the ids of the profiles that list the extension of a file of the tree
ExtensionLanguages(items) ==
  { LANGUAGE_CONFIGS[c].id : c \in { c \in 1..Len(LANGUAGE_CONFIGS) :
      \E i \in 1..Len(items) :
        /\ items[i].type = "blob"
        /\ GetExtension(items[i].path) # NULL
        /\ ArrIncludes(LANGUAGE_CONFIGS[c].extensions, GetExtension(items[i].path)) } }

\* no method can decide: no statistics, and no tree or a tree without manifest and without known extension
NothingToDetect ==
  /\ ~StatsAvailable(langResp)
  /\ \/ ~detTree.present
     \/ ManifestLanguages(detTree.items) = {} /\ ExtensionLanguages(detTree.items) = {}

\* C13: a call of detectLanguage for which no method can decide returns the default identifier
\* javascript with the confidence 0.3 and the method tag of the extension count, not the tag manual;
\* a result of a request carries the tag manual only when the request has a lang parameter.
DefaultIsNotManual ==
  /\ (pc = "returned" /\ NothingToDetect) =>
       /\ languageDetection.language = <<"j","a","v","a","s","c","r","i","p","t">>
       /\ languageDetection.confidence = <<3, 10>>
       /\ languageDetection.method = "extension"
  /\ (pc = "done" /\ response.status = 200 /\ response.metadata.detectionMethod = "manual") =>
       Truthy(manualLanguage)

\* the identifiers of the registry
RegistryIds == { LANGUAGE_CONFIGS[c].id : c \in 1..Len(LANGUAGE_CONFIGS) }

\* the registry identifier a provider's language name leads to, by an identifier, by an alias or by
\* an entry of the manual table whose value is an identifier; NULL when there is none
RegistryIdOfName(name) ==
  LET n == ToLowerCase(name)
      byConfig == { c \in 1..Len(LANGUAGE_CONFIGS) :
                      \/ LANGUAGE_CONFIGS[c].id = n
                      \/ \E k \in 1..Len(LANGUAGE_CONFIGS[c].aliases) :
                            ToLowerCase(LANGUAGE_CONFIGS[c].aliases[k]) = n }
      byTable == { k \in 1..Len(GitHubMappings) :
                      GitHubMappings[k][1] = n /\ GitHubMappings[k][2] \in RegistryIds }
  IN  IF byConfig # {} THEN LANGUAGE_CONFIGS[CHOOSE c \in byConfig : TRUE].id
      ELSE IF byTable # {} THEN GitHubMappings[CHOOSE k \in byTable : TRUE][2]
      ELSE NULL

\* the entries of the byte-count table with the largest count
LargestEntries(resp) ==
  { k \in 1..Len(resp.languages) : \A j \in 1..Len(resp.languages) : resp.languages[j][2] <= resp.languages[k][2] }

\* the table's largest language has a name that leads to no registry identifier
LargestUnrecognized(resp) ==
  /\ StatsAvailable(resp)
  /\ \A k \in LargestEntries(resp) : RegistryIdOfName(resp.languages[k][1]) = NULL

\* C14 as stated: a result with the method github-api carries a registry identifier, and when the
\* largest language of the table has an unrecognized name the statistics give no result and the
\* manifest method runs next.
UnrecognizedNameFallsThrough ==
  pc = "returned" =>
    /\ languageDetection.method = "github-api" => languageDetection.language \in RegistryIds
    /\ LargestUnrecognized(langResp) =>
         /\ languageDetection.method # "github-api"
         /\ detTree.present => \E i \in 1..Len(methodsRun) : methodsRun[i] = "manifest"

\* C14 amended: with available statistics the result always has the method github-api and the share
\* of the largest language as confidence, and no other method runs; when the name of the largest
\* language is unrecognized the result carries no registry identifier but the lower-cased name
\* itself, or the value of the manual table for a name the table lists.
UnrecognizedNameIsKept ==
  (pc = "returned" /\ StatsAvailable(langResp)) =>
    /\ languageDetection.method = "github-api"
    /\ methodsRun = <<"github-api">>
    /\ \E k \in LargestEntries(langResp) :
         /\ languageDetection.confidence = << langResp.languages[k][2], SumBytes(langResp.languages) >>
         /\ RegistryIdOfName(langResp.languages[k][1]) # NULL =>
              languageDetection.language = RegistryIdOfName(langResp.languages[k][1])
         /\ RegistryIdOfName(langResp.languages[k][1]) = NULL =>
              /\ languageDetection.language \notin RegistryIds
              /\ (\A t \in 1..Len(GitHubMappings) : GitHubMappings[t][1] # ToLowerCase(langResp.languages[k][1]))
                   => languageDetection.language = ToLowerCase(langResp.languages[k][1])
              /\ \A t \in 1..Len(GitHubMappings) :
                   GitHubMappings[t][1] = ToLowerCase(langResp.languages[k][1])
                     => languageDetection.language = GitHubMappings[t][2]

\* detectLanguage has returned html from the statistics although the tree holds the manifest of go
UnrecognizedNameReturned ==
  /\ pc = "returned"
  /\ LargestUnrecognized(langResp)
  /\ detTree.present
  /\ ManifestLanguages(detTree.items) = { <<"g","o">> }
  /\ languageDetection.language = <<"h","t","m","l">>
  /\ languageDetection.method = "github-api"

\* the name is an identifier or an alias of the registry, whatever its case
RegisteredName(name) ==
  \E c \in 1..Len(LANGUAGE_CONFIGS) :
    \/ ToLowerCase(LANGUAGE_CONFIGS[c].id) = ToLowerCase(name)
    \/ \E k \in 1..Len(LANGUAGE_CONFIGS[c].aliases) :
          ToLowerCase(LANGUAGE_CONFIGS[c].aliases[k]) = ToLowerCase(name)

\* C15: two lookups of names that differ only in case, of a registered identifier or alias, find
\* the same profile, and getLanguageConfig and getConfig give the same answer for the same name.
LookupCaseInsensitive ==
  \A i, j \in 1..Len(calls) :
    (calls[i].op \in {"getLanguageConfig", "getConfig"} /\ calls[j].op \in {"getLanguageConfig", "getConfig"}) =>
      /\ (RegisteredName(calls[i].arg) /\ ToLowerCase(calls[i].arg) = ToLowerCase(calls[j].arg)) =>
           (calls[i].result = calls[j].result /\ calls[i].result # 0)
      /\ calls[i].arg = calls[j].arg => calls[i].result = calls[j].result

\* the parser that stands in the registry under key before call i: the one of the latest
\* registerParser call for that key, else the one of the default registrations, else "none"
LastRegistered(i, key) ==
  LET regs == { j \in 1..(i - 1) : calls[j].op = "registerParser" /\ ToLowerCase(calls[j].arg) = key }
  IN  IF regs # {} THEN calls[CHOOSE j \in regs : \A k \in regs : k <= j].parser
      ELSE IF key \in DOMAIN DefaultParsers THEN DefaultParsers[key]
      ELSE "none"

\* getParser, hasParser and registerParser have kept the registry: it holds what the
\* registerParser calls and the default registrations put there, and hasParser tells of it
RegistryFollowsRegistrations ==
  /\ DOMAIN parsers = DOMAIN DefaultParsers
                        \cup { ToLowerCase(calls[j].arg) : j \in { j \in 1..Len(calls) : calls[j].op = "registerParser" } }
  /\ \A key \in DOMAIN parsers : parsers[key] = LastRegistered(Len(calls) + 1, key)
  /\ \A i \in 1..Len(calls) :
       calls[i].op = "hasParser" =>
         (calls[i].result = "true" <=> LastRegistered(i, ToLowerCase(calls[i].arg)) # "none")

WithoutContent(i) == Len(fileContents[i].content) = 0

\* C17: the nodes of a graph response are exactly the code files that passed the filter, one node
\* each, whatever their fetches gave; the node of a file without content has no imports, and an
\* import of another file that matches its path still gives the edge to it.
NodesAreTheCodeFiles ==
  Built =>
    /\ Len(response.nodes) = Len(codeFiles)
    /\ NodePaths(response.nodes) = { codeFiles[i].path : i \in 1..Len(codeFiles) }
    /\ \A i \in 1..Len(fileContents) :
         WithoutContent(i) =>
           /\ NodeOf(fileContents[i].path).imports = <<>>
           /\ \A j \in 1..Len(fileContents) :
                LET imports == ParseImports(parser, fileContents[j].content, fileContents[j].path)
                IN  \A k \in 1..Len(imports) :
                      MatchImportToFile(parser, imports[k], NodeKeys(response.nodes)) = fileContents[i].path
                        => [source |-> fileContents[j].path, target |-> fileContents[i].path]
                             \in SeqToSet(response.edges)

\* a graph response in which a file whose fetch failed is the target of an edge and a file that was
\* too large has a node without any edge
ContentlessTargetAndIsolatedNode ==
  /\ Built
  /\ failedFetches = 1
  /\ skippedLargeFiles = 1
  /\ \E i \in 1..Len(fileContents) :
       /\ WithoutContent(i)
       /\ \E e \in 1..Len(response.edges) : response.edges[e].target = fileContents[i].path
  /\ \E i \in 1..Len(fileContents) :
       /\ WithoutContent(i)
       /\ RepoItem(fileContents[i].path).size >= MAX_FILE_BYTES
       /\ NodeOf(fileContents[i].path).imports = <<>>
       /\ NodeOf(fileContents[i].path).importedBy = <<>>

\* the depth of the directory of a file: the number of segments of its path before its name
DirDepth(path) == Len(Split(path, "/")) - 1

\* the statement is a relative import that ascends above the root from the file at path
AscendsAboveRoot(st, path) ==
  /\ st.shape = "from"
  /\ StartsWith(st.spec, <<".">>)
  /\ LeadingDots(st.spec) - 1 > DirDepth(path)

\* C18: a Python relative import with more leading dots than the directory of its file is deep plus
\* one gives no candidate: the resolution of the relative path gives none, and parseImports returns
\* none for a text made of such imports.
AboveRootDropped ==
  \A i \in 1..Len(calls) :
    /\ (calls[i].op = "resolveRelativeImport" /\ LeadingDots(calls[i].arg) - 1 > DirDepth(calls[i].path))
         => calls[i].result = NULL
    /\ (calls[i].op = "parseImports" /\ calls[i].parser = "py"
        /\ \A k \in 1..Len(calls[i].arg) : AscendsAboveRoot(calls[i].arg[k], calls[i].path))
         => calls[i].result = <<>>

\* C19: a CommonJS require statement with an internal path in an ECMAScript file gives its resolved
\* candidate in the result of parseImports, as an import statement does, and the build has the edge
\* to the file the candidate matches.
RequireRecognized ==
  (Built /\ parser = "js") =>
    \A i \in 1..Len(fileContents) : \A k \in 1..Len(fileContents[i].content) :
      LET st == fileContents[i].content[k]
          candidate == JsResolveImportPath(st.spec, fileContents[i].path)
          target == JsMatchImportToFile(candidate, NodeKeys(response.nodes))
      IN  (st.shape = "require" /\ JsIsInternalImport(st.spec, fileContents[i].path)) =>
            /\ ArrIncludes(ParseImports(parser, fileContents[i].content, fileContents[i].path), candidate)
            /\ target # NULL =>
                 [source |-> fileContents[i].path, target |-> target] \in SeqToSet(response.edges)

\* the supported extensions in the order of the attempts
SupportedExts == << <<"t","s">>, <<"t","s","x">>, <<"j","s">>, <<"j","s","x">>, <<"m","j","s">>, <<"c","j","s">> >>

\* the first path of the list that is a file of the tree, NULL when none is
FirstExisting(candidates) ==
  LET hits == { i \in 1..Len(candidates) : \E t \in 1..Len(tree) : tree[t].path = candidates[i] }
  IN  IF hits = {} THEN NULL ELSE candidates[CHOOSE i \in hits : \A j \in hits : i <= j]

\* the attempts on one path as the claim has them: the path, the path with each extension
\* appended, the index file of each extension in the directory of that name
AppendedAttempts(q) ==
  << q >> \o [e \in 1..Len(SupportedExts) |-> q \o <<".">> \o SupportedExts[e]]
          \o [e \in 1..Len(SupportedExts) |-> q \o <<"/","i","n","d","e","x",".">> \o SupportedExts[e]]

\* C20 as stated: matchImportToFile returns the first existing file among the path, the path with
\* each extension appended, the index files, and for a path under packages/ the same attempts
\* without the prefix and then with apps/ in its place; it returns null when none of them exists.
MatchOrderAppended ==
  \A i \in 1..Len(calls) :
    calls[i].op = "matchImportToFile" =>
      calls[i].result = FirstExisting(
        AppendedAttempts(calls[i].arg)
        \o (IF StartsWith(calls[i].arg, <<"p","a","c","k","a","g","e","s","/">>)
            THEN AppendedAttempts(Substring(calls[i].arg, 9))
                 \o AppendedAttempts(<<"a","p","p","s","/">> \o Substring(calls[i].arg, 9))
            ELSE <<>>))

\* the path without the supported extension it ends with
Stem(q) ==
  IF \E e \in 1..Len(SupportedExts) : EndsWith(q, <<".">> \o SupportedExts[e])
  THEN SubSeq(q, 1, Len(q) - 1 - Len(SupportedExts[CHOOSE e \in 1..Len(SupportedExts) :
                                                     EndsWith(q, <<".">> \o SupportedExts[e])]))
  ELSE q

\* the attempts on one path: the path, its stem with each extension, the index file of each
\* extension in the directory named by the stem
StemAttempts(q) ==
  << q >> \o [e \in 1..Len(SupportedExts) |-> Stem(q) \o <<".">> \o SupportedExts[e]]
          \o [e \in 1..Len(SupportedExts) |-> Stem(q) \o <<"/","i","n","d","e","x",".">> \o SupportedExts[e]]

RECURSIVE OrderedAttempts(_)
\* all attempts in order: those on the path, then for a path under packages/ all attempts on the
\* path without that prefix, and for a path under neither packages/ nor apps/ those on apps/path
OrderedAttempts(q) ==
  StemAttempts(q)
  \o (IF StartsWith(q, <<"p","a","c","k","a","g","e","s","/">>) THEN OrderedAttempts(Substring(q, 9))
      ELSE IF ~StartsWith(q, <<"a","p","p","s","/">>) THEN StemAttempts(<<"a","p","p","s","/">> \o q)
      ELSE <<>>)

\* C20 amended: matchImportToFile returns the first existing file among the path, the path with
\* its extension exchanged for (or, when it has none, with the addition of) each extension, the
\* index files, then for a path under packages/ the same attempts on the path without the prefix,
\* and for every path under neither packages/ nor apps/ the same attempts with apps/ before it;
\* null when none exists.  With P.ts and P/index.ts both there the result for P is P.ts.
MatchOrderExchanged ==
  \A i \in 1..Len(calls) :
    calls[i].op = "matchImportToFile" =>
      /\ calls[i].result = FirstExisting(OrderedAttempts(calls[i].arg))
      /\ ({ calls[i].arg \o <<".","t","s">>, calls[i].arg \o <<"/","i","n","d","e","x",".","t","s">> } \subseteq SeqToSet(TreePaths)
          /\ calls[i].arg \notin SeqToSet(TreePaths))
           => calls[i].result = calls[i].arg \o <<".","t","s">>

\* matchImportToFile has returned s/p.ts for s/p with s/p/index.ts listed before s/p.ts
PlainFileBeforeIndexFile ==
  /\ TreePaths = << <<"s","/","p","/","i","n","d","e","x",".","t","s">>, <<"s","/","p",".","t","s">> >>
  /\ Len(calls) = 1
  /\ calls[1].arg = <<"s","/","p">>
  /\ calls[1].result = <<"s","/","p",".","t","s">>

\* the final segment of a path
FileNameOf(path) == Split(path, "/")[Len(Split(path, "/"))]

\* some file entry of the tree has a filename, in whatever directory, that is a manifest of a profile
ManifestFileNamed(items) ==
  \E c \in 1..Len(LANGUAGE_CONFIGS), i \in 1..Len(items) :
    \E m \in 1..Len(LANGUAGE_CONFIGS[c].manifestFiles) :
      /\ items[i].type = "blob"
      /\ ToLowerCase(FileNameOf(items[i].path)) = ToLowerCase(LANGUAGE_CONFIGS[c].manifestFiles[m])

\* C21: a call of detectLanguage without available statistics returns the method manifest exactly
\* when some file entry of the tree, in whatever directory, has the filename of a manifest.
ManifestInAnyDirectory ==
  (pc = "returned" /\ ~StatsAvailable(langResp) /\ detTree.present) =>
    (languageDetection.method = "manifest" <=> ManifestFileNamed(detTree.items))

\* the candidate of a relative import by its description: the directory of the file without its
\* last n-1 segments, then the module with separators for dots and .py, or __init__.py without module
RelativeCandidate(relativePath, currentPath) ==
  LET n    == LeadingDots(relativePath)
      m    == SubSeq(relativePath, n + 1, Len(relativePath))
      segs == Split(currentPath, "/")
      dir  == SubSeq(segs, 1, Len(segs) - 1 - (n - 1))
      name == IF m = <<>> THEN <<"_","_","i","n","i","t","_","_",".","p","y">> ELSE DotsToSlashes(m) \o <<".","p","y">>
  IN  IF dir = <<>> THEN name ELSE Join(dir, "/") \o <<"/">> \o name

\* C22: a Python relative import with n leading dots in a file whose directory has depth L >= n-1,
\* the files at the root and the imports whose target directory is the root included, is not dropped
\* and resolves to the directory without its last n-1 segments followed by the module file.
RelativeWithinTreeResolved ==
  \A i \in 1..Len(calls) :
    (calls[i].op = "resolveRelativeImport" /\ DirDepth(calls[i].path) >= LeadingDots(calls[i].arg) - 1)
      => /\ calls[i].result # NULL
         /\ calls[i].result = RelativeCandidate(calls[i].arg, calls[i].path)

\* C23: both size caps act before the content fetches are issued: there are no more content fetches
\* than the maximum number of analysed files, and none for a file at or above the byte cap.
SizeCapsBeforeFetch ==
  /\ Cardinality({ i \in 1..Len(fetchLog) : fetchLog[i].kind = "content" }) <= MAX_CODE_FILES
  /\ \A i \in 1..Len(fetchLog) :
       fetchLog[i].kind = "content" => RepoItem(fetchLog[i].path).size < MAX_FILE_BYTES

\* the positions of the requests of one kind in the log of requests
RequestsOf(kind) == { i \in 1..Len(fetchLog) : fetchLog[i].kind = kind }

\* every content fetch of the build has settled
AllSettled == \A i \in 1..Len(fileContents) : fileContents[i].settled

\* C24: whatever the order in which the content fetches settle and whichever of them fail, no content
\* is requested before the tree listing and the language detection are done, no node is made and no
\* import resolved before every fetch has settled, every node is there before the first edge, and the
\* graph answered is the one built from the code files in their listed order, each with its fetched
\* text or none: it does not depend on the order of completion.
FetchOrderIrrelevant ==
  /\ \A i \in RequestsOf("content") :
       /\ RequestsOf("tree") # {}
       /\ \A j \in RequestsOf("tree") \cup RequestsOf("languages") : j < i
       /\ languageDetection.method \notin {"none", "throw"}
       /\ pc \in {"fetching", "edges", "done"}
  /\ (pc = "edges" \/ nodes # <<>> \/ edges # <<>>) => AllSettled
  /\ (pc = "edges" \/ edges # <<>>) => NodeKeys(nodes) = [i \in 1..Len(codeFiles) |-> codeFiles[i].path]
  /\ \A i \in 1..Len(fileContents) :
       /\ fileContents[i].path = codeFiles[i].path
       /\ fileContents[i].content \in { <<>>, RepoItem(codeFiles[i].path).content }
  /\ Built =>
       LET g == BuildGraph(parser, [i \in 1..Len(codeFiles) |->
                                      File(codeFiles[i].path, fileContents[i].content)])
       IN  response.nodes = g.nodes /\ response.edges = g.edges

\* a build has answered with an edge after one of its several content fetches had failed
BuiltAfterFailedFetch ==
  /\ Built
  /\ Len(fileContents) >= 2
  /\ failedFetches = 1
  /\ Len(response.edges) >= 1

\* the number of file entries of the tree whose extension maps to the profile of this identifier
FilesOfLanguage(items, id) ==
  Cardinality({ i \in 1..Len(items) :
                  /\ items[i].type = "blob"
                  /\ GetExtension(items[i].path) # NULL
                  /\ FindLanguageByExtension(GetExtension(items[i].path)) = id })

\* the positions in the registry of the profiles with the highest number of files of the tree
LeadingProfiles(items) ==
  { c \in 1..Len(LANGUAGE_CONFIGS) :
      /\ FilesOfLanguage(items, LANGUAGE_CONFIGS[c].id) > 0
      /\ \A d \in 1..Len(LANGUAGE_CONFIGS) :
           FilesOfLanguage(items, LANGUAGE_CONFIGS[d].id) <= FilesOfLanguage(items, LANGUAGE_CONFIGS[c].id) }

\* C25: a call of detectLanguage that comes down to the extension count returns the profile with the
\* highest number of files, the earliest of the registry when several have that number, with the
\* confidence of that number over the number of classified files.
ExtensionTieByRegistryOrder ==
  (pc = "returned" /\ ~StatsAvailable(langResp) /\ detTree.present
   /\ ManifestLanguages(detTree.items) = {} /\ LeadingProfiles(detTree.items) # {}) =>
    LET first == CHOOSE c \in LeadingProfiles(detTree.items) :
                   \A d \in LeadingProfiles(detTree.items) : c <= d
        total == Cardinality({ i \in 1..Len(detTree.items) :
                   \E c \in 1..Len(LANGUAGE_CONFIGS) :
                     FilesOfLanguage(<< detTree.items[i] >>, LANGUAGE_CONFIGS[c].id) = 1 })
    IN  /\ languageDetection.method = "extension"
        /\ languageDetection.language = LANGUAGE_CONFIGS[first].id
        /\ languageDetection.confidence[1] * total
             = languageDetection.confidence[2] * FilesOfLanguage(detTree.items, LANGUAGE_CONFIGS[first].id)

\* C26: a build whose language has no registered parser, so that getParser fell back to the default
\* parser, answers with a warning about the fallback in its list of warnings.
FallbackWarned ==
  (Built /\ ~HasParser(parsers, response.metadata.language)) =>
    /\ response.warnings # NULL
    /\ "parser-fallback" \in SeqToSet(response.warnings)

\* the statement forms of an ECMAScript file that name a module
JsModuleShapes == {"default", "named", "namespace", "side", "reexport", "starexport", "dynamic"}

\* the statements of a text that have one of these forms and an internal path, in text order
JsInternalStatements(content, currentPath, shapes) ==
  SelectSeq(content, LAMBDA st : st.shape \in shapes /\ JsQuotable(st.spec)
                                 /\ JsIsInternalImport(st.spec, currentPath))

\* parseImports has returned one candidate for each statement of these forms, and no other
OneCandidateEach(i, shapes) ==
  LET sts == JsInternalStatements(calls[i].arg, calls[i].path, shapes)
  IN  /\ Len(calls[i].result) = Len(sts)
      /\ \A k \in 1..Len(sts) :
           Occurrences(calls[i].result, JsResolveImportPath(sts[k].spec, calls[i].path))
             = Cardinality({ j \in 1..Len(sts) :
                 JsResolveImportPath(sts[j].spec, calls[i].path)
                   = JsResolveImportPath(sts[k].spec, calls[i].path) })

\* C27: parseImports of the ECMAScript parser returns exactly one candidate for each default, named,
\* namespace and side-effect import, each named and each star re-export and each dynamic import
\* with an internal path.
EveryShapeOneCandidate ==
  \A i \in 1..Len(calls) :
    (calls[i].op = "parseImports" /\ calls[i].parser = "js") => OneCandidateEach(i, JsModuleShapes)

\* the path of an import statement starts with ./ or ../
RelativeSpec(st) == StartsWith(st.spec, <<".","/">>) \/ StartsWith(st.spec, <<".",".","/">>)

\* C28: in a build with the ECMAScript parser, every edge out of a file whose imports are all
\* relative targets a file at the resolved path of one of them: that path itself, the path with a
\* supported extension exchanged or appended, or an index file in the directory of that name.
RelativeEdgeStaysInPlace ==
  (Built /\ parser = "js") =>
    \A f \in 1..Len(fileContents), e \in 1..Len(response.edges) :
      (/\ response.edges[e].source = fileContents[f].path
       /\ \A k \in 1..Len(fileContents[f].content) :
            fileContents[f].content[k].shape \in JsModuleShapes => RelativeSpec(fileContents[f].content[k]))
        => \E k \in 1..Len(fileContents[f].content) :
             /\ fileContents[f].content[k].shape \in JsModuleShapes
             /\ response.edges[e].target
                  \in SeqToSet(StemAttempts(JsResolveImportPath(fileContents[f].content[k].spec,
                                                               fileContents[f].path)))

\* each nested invocation is made on the caller's path without its leading packages/, which is
\* shorter, or on the caller's path under apps/, and then it is the last; no path comes twice
RecursionDescends ==
  /\ \A i \in 1..(Len(calls) - 1) :
       \/ /\ calls[i].arg = <<"p","a","c","k","a","g","e","s","/">> \o calls[i + 1].arg
          /\ Len(calls[i + 1].arg) < Len(calls[i].arg)
       \/ /\ calls[i + 1].arg = <<"a","p","p","s","/">> \o calls[i].arg
          /\ i + 1 = Len(calls)
  /\ \A i \in 1..Len(calls), j \in 1..Len(calls) : i # j => calls[i].arg # calls[j].arg
  /\ Len(calls) < MaxFrames

\* the value the outermost invocation returns is the value of matchImportToFile
RecursionResult ==
  pc = "matched" => calls[1].result = JsMatchImportToFile(calls[1].arg, TreePaths)

\* C29: matchImportToFile terminates for every import path and every list of files: every chain of
\* nested invocations descends as above and the outermost invocation returns.
MatchTerminates == [](RecursionDescends /\ RecursionResult) /\ <>(pc = "matched")

\* a call on packages/packages/s/p has returned apps/s/p.tsx from its fourth nested invocation
DeepestChainReturned ==
  /\ pc = "matched"
  /\ Len(calls) = 4
  /\ calls[1].arg = <<"p","a","c","k","a","g","e","s","/","p","a","c","k","a","g","e","s","/","s","/","p">>
  /\ calls[4].arg = <<"a","p","p","s","/","s","/","p">>
  /\ calls[1].result = <<"a","p","p","s","/","s","/","p",".","t","s","x">>

\* C30: parseImports of the Python parser returns at most one candidate for each import statement
\* of the text, the relative ones included: never more candidates than import statements.
PyOneCandidatePerStatement ==
  \A i \in 1..Len(calls) :
    (calls[i].op = "parseImports" /\ calls[i].parser = "py") =>
      Len(calls[i].result)
        <= Cardinality({ k \in 1..Len(calls[i].arg) : calls[i].arg[k].shape \in {"import", "importas", "from"} })

=============================================================================
